---- MODULE Spec2Model ----
(***************************************************************************)
(* corp_error_agent_server: the telemetry endpoints (cea_srv/telemetry),   *)
(* the nightly analysis command (cea_srv/analysis/management/commands/     *)
(* run_analysis.py) and the suggestion service's encoder singleton         *)
(* (cea_srv/analysis/services.py), as one state machine over the database  *)
(* tables and the position of every request thread and analysis process.   *)
(*                                                                         *)
(* Text (signatures, env hashes, keys) is a sequence of one-character      *)
(* strings, so that formatting, stripping and splitting are computed.      *)
(* Rates are exact fractions <<numerator, denominator>>.                   *)
(***************************************************************************)
EXTENDS Integers, Sequences, FiniteSets, TLC

(***************************************************************************)
(* Bounds of the model.                                                    *)
(***************************************************************************)
MaxBeacons == 3
MaxPosted == 2
MaxRuns == 2

Threads == {"t1", "t2"}

(***************************************************************************)
(* Text helpers.                                                           *)
(***************************************************************************)
NoText == << >>

\* str.strip(): leading and trailing whitespace removed
RECURSIVE LStrip(_)
LStrip(s) == IF s # << >> /\ Head(s) = " " THEN LStrip(Tail(s)) ELSE s

RECURSIVE RStrip(_)
RStrip(s) ==
    IF s # << >> /\ s[Len(s)] = " " THEN RStrip(SubSeq(s, 1, Len(s) - 1)) ELSE s

Strip(s) == RStrip(LStrip(s))

(***************************************************************************)
(* Request payloads.                                                       *)
(***************************************************************************)
H1 == <<"h">>
H2 == <<"x", ":", "h">>
SigE == <<"E">>
SigEx == <<"E", ":", "x">>
SigEy == <<"E", ":", "y">>
TraceTb == <<"t", "b">>
Py311 == <<"3", ".", "1", "1">>
Py312 == <<"3", ".", "1", "2">>
X86 == <<"x", "8", "6">>
Arm == <<"a", "r", "m">>
Linux == <<"L", "i", "n", "u", "x">>
Darwin == <<"D", "a", "r", "w", "i", "n">>
Np == <<"n", "p">>
VarM == <<"M">>
VarToken == <<"T", "o", "k", "e", "n">>
H3 == <<"n", "o">>
SigF == <<"F", "a">>

\* an entry of a JSON list: a string, or a value of another JSON type with
\* its rendering
Str(text) == [type |-> "str", text |-> text]
NonStr(text) == [type |-> "other", text |-> text]

\* telemetry/models.py EnvSnapshot: the payloads a client may submit.
\* packages is a JSON dict (pform "dict", pdict its items in order), a JSON
\* list (pform "list", plist its entries), null ("none") or another JSON
\* value ("other"); env_vars is a JSON dict (has_vars, its items in order)
\* or null.
EnvInputs ==
    { [env_hash |-> H1, machine_arch |-> X86, python_ver |-> Py311,
       os_info |-> Linux, pform |-> "dict", pdict |-> << <<Np, <<"1">>>> >>,
       plist |-> << >>, has_vars |-> TRUE,
       env_vars |-> << <<VarM, <<"a">>>> >>],
      [env_hash |-> H1, machine_arch |-> X86, python_ver |-> Py312,
       os_info |-> Linux, pform |-> "list", pdict |-> << >>,
       plist |-> << Str(<<"n", "p", "=", "=", "2">>) >>, has_vars |-> FALSE,
       env_vars |-> << >>],
      [env_hash |-> H1, machine_arch |-> Arm, python_ver |-> Py312,
       os_info |-> Darwin, pform |-> "list", pdict |-> << >>,
       plist |-> << Str(<<"n", "p", ">", "=", "1">>) >>, has_vars |-> TRUE,
       env_vars |-> << <<VarToken, <<"s">>>>, <<VarM, <<"b">>>> >>],
      [env_hash |-> H2, machine_arch |-> X86, python_ver |-> Py312,
       os_info |-> Linux, pform |-> "dict", pdict |-> << <<Np, <<"1">>>> >>,
       plist |-> << >>, has_vars |-> TRUE,
       env_vars |-> << <<VarM, <<"a">>>> >>] }

\* telemetry/models.py Beacon: the payloads a client may submit.  An absent
\* (None) or blank error_sig or trace is the empty text.
BeaconInputs ==
    { [kind |-> "error", env_hash |-> H1, error_sig |-> SigE,
       trace |-> NoText, ts |-> 1],
      [kind |-> "error", env_hash |-> H2, error_sig |-> SigE,
       trace |-> NoText, ts |-> 2],
      [kind |-> "error", env_hash |-> H1, error_sig |-> SigEx,
       trace |-> NoText, ts |-> 2],
      [kind |-> "error", env_hash |-> H1, error_sig |-> NoText,
       trace |-> TraceTb, ts |-> 1],
      [kind |-> "error", env_hash |-> H2, error_sig |-> NoText,
       trace |-> NoText, ts |-> 1],
      [kind |-> "success", env_hash |-> H1, error_sig |-> NoText,
       trace |-> NoText, ts |-> 1] }

(***************************************************************************)
(* run_analysis.py: ingestion and deduplication (handle, lines 74-121).    *)
(***************************************************************************)
Unknown == <<"u", "n", "k", "n", "o", "w", "n">>
UnknownError ==
    <<"U", "n", "k", "n", "o", "w", "n", " ", "E", "r", "r", "o", "r">>

\* line 93: f"{beacon.error_sig or ''}:{beacon.env_hash}"
error_key(b) == b.error_sig \o <<":">> \o b.env_hash

\* line 102: beacon.error_sig or "unknown"
BeaconText(b) == IF b.error_sig # NoText THEN b.error_sig ELSE Unknown

\* line 109: EnvSnapshot.objects.get(env_hash=h): the one matching row, or
\* DoesNotExist, or MultipleObjectsReturned
EnvGetByHash(envTable, h) ==
    LET rows == {e \in envTable : e.env_hash = h}
    IN  IF rows = {} THEN [found |-> "DoesNotExist", row |-> {}]
        ELSE IF Cardinality(rows) > 1
             THEN [found |-> "MultipleObjectsReturned", row |-> {}]
             ELSE [found |-> "one", row |-> rows]

\* lines 95-117: one iteration of the loop over the error beacons; acc is
\* the loop's state, i the beacon's position in the table
IngestStep(acc, table, envTable, i) ==
    LET b == table[i]
        key == error_key(b)
        text == BeaconText(b)
        got == EnvGetByHash(envTable, b.env_hash)
    IN  IF acc.raised # "none" THEN acc
        ELSE IF key \in acc.seen_errors
        THEN [acc EXCEPT !.duplicates_filtered = @ + 1]
        ELSE IF Strip(text) = << >>
        THEN [acc EXCEPT !.seen_errors = @ \cup {key}]
        ELSE IF got.found = "MultipleObjectsReturned"
        THEN [acc EXCEPT !.seen_errors = @ \cup {key},
                         !.error_texts = Append(@, Strip(text)),
                         !.raised = "MultipleObjectsReturned"]
        ELSE IF got.found = "DoesNotExist"
        THEN [acc EXCEPT !.seen_errors = @ \cup {key},
                         !.error_texts = Append(@, Strip(text))]
        ELSE [acc EXCEPT !.seen_errors = @ \cup {key},
                         !.error_texts = Append(@, Strip(text)),
                         !.beacon_env_data = Append(@,
                             [beacon |-> i, text |-> Strip(text),
                              env |-> CHOOSE e \in got.row : TRUE])]

RECURSIVE IngestFrom(_, _, _, _)
IngestFrom(acc, table, envTable, i) ==
    IF i > Len(table) THEN acc
    ELSE IngestFrom(
            IF table[i].kind = "error"
            THEN IngestStep(acc, table, envTable, i) ELSE acc,
            table, envTable, i + 1)

\* lines 84-117 over the whole table
Ingest(table, envTable) ==
    IngestFrom([seen_errors |-> {}, duplicates_filtered |-> 0,
                error_texts |-> << >>, beacon_env_data |-> << >>,
                raised |-> "none"],
               table, envTable, 1)

\* line 74-76: error_beacons.exists()
HasErrorBeacons(table) == \E i \in 1..Len(table) : table[i].kind = "error"

(***************************************************************************)
(* The encoder and DBSCAN (handle, lines 132-141).                         *)
(***************************************************************************)
\* SentenceTransformer.encode: an opaque, deterministic text -> vector map;
\* here three near signatures and one far placeholder
Encode(text) ==
    IF text = SigE THEN <<10, 0>>
    ELSE IF text = SigEx THEN <<9, 4>>
    ELSE IF text = SigEy THEN <<9, (-4)>>
    ELSE IF text = Unknown THEN <<0, 10>>
    ELSE <<(-7), (-7)>>

Dot(a, b) == a[1] * b[1] + a[2] * b[2]

\* cosine similarity of a and b is at least num/den (num, den > 0)
CosAtLeast(a, b, num, den) ==
    /\ Dot(a, b) > 0
    /\ den * den * Dot(a, b) * Dot(a, b) >= num * num * Dot(a, a) * Dot(b, b)

\* eps = 0.3 on the cosine distance 1 - similarity: similarity >= 0.7
EpsNum == 7
EpsDen == 10
min_samples == 2

WithinEps(a, b) == CosAtLeast(a, b, EpsNum, EpsDen)

\* the eps-neighbourhood of point i (itself included)
Neighbours(emb, i) == {j \in 1..Len(emb) : WithinEps(emb[i], emb[j])}

IsCore(emb, i) == Cardinality(Neighbours(emb, i)) >= min_samples

\* the points reached from the set S by expanding core points
RECURSIVE Expand(_, _)
Expand(emb, S) ==
    LET S2 == S \cup UNION {Neighbours(emb, j) : j \in {k \in S : IsCore(emb, k)}}
    IN  IF S2 = S THEN S ELSE Expand(emb, S2)

\* sklearn's DBSCAN: points in index order; an unlabelled core point starts
\* the next cluster, which takes every still unlabelled point reached from it
RECURSIVE DbscanFrom(_, _, _, _)
DbscanFrom(emb, i, lab, label_num) ==
    IF i > Len(emb) THEN lab
    ELSE IF lab[i] # -1 \/ ~IsCore(emb, i)
    THEN DbscanFrom(emb, i + 1, lab, label_num)
    ELSE LET reach == {j \in Expand(emb, {i}) : lab[j] = -1}
         IN  DbscanFrom(emb, i + 1,
                 [j \in 1..Len(emb) |->
                     IF j \in reach THEN label_num ELSE lab[j]],
                 label_num + 1)

\* clustering.fit_predict(embeddings): the label of every point
Dbscan(emb) == DbscanFrom(emb, 1, [j \in 1..Len(emb) |-> -1], 0)

\* lines 133-141: the labels of error_texts
ClusterLabels(error_texts) ==
    Dbscan([j \in 1..Len(error_texts) |-> Encode(error_texts[j])])

(***************************************************************************)
(* run_analysis.py: package normalisation (_parse_packages, lines 15-67).  *)
(***************************************************************************)
Min(S) == CHOOSE x \in S : \A y \in S : x <= y

\* the first position at which pat occurs in s, 0 when it does not
FindSub(s, pat) ==
    LET at == {i \in 1..(Len(s) - Len(pat) + 1) :
                  SubSeq(s, i, i + Len(pat) - 1) = pat}
    IN  IF at = {} THEN 0 ELSE Min(at)

\* s.split(pat, 1) for a pat that occurs in s
SplitOnce(s, pat) ==
    LET i == FindSub(s, pat)
    IN  <<SubSeq(s, 1, i - 1), SubSeq(s, i + Len(pat), Len(s))>>

\* d[k] = v on a dict kept as its items in insertion order
DictSet(d, k, v) ==
    IF \E i \in 1..Len(d) : d[i][1] = k
    THEN [i \in 1..Len(d) |-> IF d[i][1] = k THEN <<k, v>> ELSE d[i]]
    ELSE Append(d, <<k, v>>)

\* the handling of one list entry without the isinstance tests
ParseAnyType(parsed, pkg_spec) ==
    LET Op(pat, prefix) ==
            LET parts == SplitOnce(pkg_spec.text, pat)
            IN  DictSet(parsed, parts[1], prefix \o parts[2])
    IN  IF FindSub(pkg_spec.text, <<"=", "=">>) > 0
        THEN Op(<<"=", "=">>, << >>)
        ELSE IF FindSub(pkg_spec.text, <<">", "=">>) > 0
        THEN Op(<<">", "=">>, <<">", "=">>)
        ELSE IF FindSub(pkg_spec.text, <<"<", "=">>) > 0
        THEN Op(<<"<", "=">>, <<"<", "=">>)
        ELSE IF FindSub(pkg_spec.text, <<">">>) > 0 THEN Op(<<">">>, <<">">>)
        ELSE IF FindSub(pkg_spec.text, <<"<">>) > 0 THEN Op(<<"<">>, <<"<">>)
        ELSE DictSet(parsed, pkg_spec.text, Unknown)

\* lines 31-63: one entry of the list form; every branch requires
\* isinstance(pkg_spec, str), so an entry of another type changes nothing
ParseSpecifier(parsed, pkg_spec) ==
    LET Op(pat, prefix) ==
            LET parts == SplitOnce(pkg_spec.text, pat)
            IN  DictSet(parsed, parts[1], prefix \o parts[2])
    IN  IF pkg_spec.type # "str" THEN parsed
        ELSE IF FindSub(pkg_spec.text, <<"=", "=">>) > 0
        THEN Op(<<"=", "=">>, << >>)
        ELSE IF FindSub(pkg_spec.text, <<">", "=">>) > 0
        THEN Op(<<">", "=">>, <<">", "=">>)
        ELSE IF FindSub(pkg_spec.text, <<"<", "=">>) > 0
        THEN Op(<<"<", "=">>, <<"<", "=">>)
        ELSE IF FindSub(pkg_spec.text, <<">">>) > 0 THEN Op(<<">">>, <<">">>)
        ELSE IF FindSub(pkg_spec.text, <<"<">>) > 0 THEN Op(<<"<">>, <<"<">>)
        ELSE DictSet(parsed, pkg_spec.text, Unknown)

RECURSIVE ParseList(_, _, _)
ParseList(parsed, list, i) ==
    IF i > Len(list) THEN parsed
    ELSE ParseList(ParseSpecifier(parsed, list[i]), list, i + 1)

\* line 20: not packages, for None, {}, [] (and "", 0, false)
Falsy(env) ==
    \/ env.pform = "none"
    \/ env.pform = "dict" /\ env.pdict = << >>
    \/ env.pform = "list" /\ env.plist = << >>

\* _parse_packages(env.packages): the items of the name -> version dict
_parse_packages(env) ==
    IF Falsy(env) THEN << >>
    ELSE IF env.pform = "dict" THEN env.pdict
    ELSE IF env.pform = "list" THEN ParseList(<< >>, env.plist, 1)
    ELSE << >>

(***************************************************************************)
(* run_analysis.py: the configuration dimensions of one snapshot (lines    *)
(* 223-248 and 267-294, the same code twice).  A key is <<namespace,       *)
(* name>>: python_ver, machine_arch, os_info, packages.<name>,             *)
(* env_vars.<name>.                                                        *)
(***************************************************************************)
UpperChars ==
    <<"A", "B", "C", "D", "E", "F", "G", "H", "I", "J", "K", "L", "M",
      "N", "O", "P", "Q", "R", "S", "T", "U", "V", "W", "X", "Y", "Z">>
LowerChars ==
    <<"a", "b", "c", "d", "e", "f", "g", "h", "i", "j", "k", "l", "m",
      "n", "o", "p", "q", "r", "s", "t", "u", "v", "w", "x", "y", "z">>

\* str.lower()
Lower(s) ==
    [i \in 1..Len(s) |->
        IF \E k \in 1..26 : UpperChars[k] = s[i]
        THEN LowerChars[CHOOSE k \in 1..26 : UpperChars[k] = s[i]]
        ELSE s[i]]

\* lines 246, 292
SensitiveNames ==
    { <<"p", "a", "s", "s", "w", "o", "r", "d">>,
      <<"s", "e", "c", "r", "e", "t">>,
      <<"k", "e", "y">>,
      <<"t", "o", "k", "e", "n">>,
      <<"a", "u", "t", "h">> }

\* lines 243, 289
MaxValueLen == 200

\* the filter with the names compared as they are written
EnvVarItemsCaseSensitive(env) ==
    IF env.has_vars /\ env.env_vars # << >>
    THEN { <<<<"env_vars", env.env_vars[i][1]>>, env.env_vars[i][2]>> :
             i \in {k \in 1..Len(env.env_vars) :
                      /\ ~(Len(env.env_vars[k][2]) > MaxValueLen)
                      /\ env.env_vars[k][1] \notin SensitiveNames} }
    ELSE {}

\* lines 239-248, 285-294: the environment variables that are counted
EnvVarItems(env) ==
    IF env.has_vars /\ env.env_vars # << >>
    THEN { <<<<"env_vars", env.env_vars[i][1]>>, env.env_vars[i][2]>> :
             i \in {k \in 1..Len(env.env_vars) :
                      /\ ~(Len(env.env_vars[k][2]) > MaxValueLen)
                      /\ Lower(env.env_vars[k][1]) \notin SensitiveNames} }
    ELSE {}

\* the <<key, value>> pairs one snapshot counts one hit for
ConfigItems(env) ==
    LET pk == _parse_packages(env)
    IN  { <<<<"python_ver", << >> >>, env.python_ver>>,
          <<<<"machine_arch", << >> >>, env.machine_arch>>,
          <<<<"os_info", << >> >>, env.os_info>> }
        \cup { <<<<"packages", pk[i][1]>>, pk[i][2]>> : i \in 1..Len(pk) }
        \cup EnvVarItems(env)

\* a baseline that leaves the environment variables out
BaselineWithoutEnvVars(envTable) ==
    LET items == UNION {ConfigItems(e) \ EnvVarItems(e) : e \in envTable}
    IN  [total_envs |-> Cardinality(envTable),
         counts |-> [kv \in items |->
                       Cardinality({e \in envTable : kv \in ConfigItems(e)})]]

\* _calculate_global_config_stats (lines 213-257): the number of snapshots
\* and, per <<key, value>>, the number of snapshots that have it; the rate
\* is count / total_envs
_calculate_global_config_stats(envTable) ==
    LET items == UNION {ConfigItems(e) : e \in envTable}
    IN  [total_envs |-> Cardinality(envTable),
         counts |-> [kv \in items |->
                       Cardinality({e \in envTable : kv \in ConfigItems(e)})]]

\* line 303: global_stats.get(config_key, {}).get(value, 0.01)
DefaultRate == <<1, 100>>

\* the rate among the other snapshots: the count less the one that has it
GlobalRateOfOthers(global_stats, kv) ==
    IF global_stats.total_envs > 0 /\ kv \in DOMAIN global_stats.counts
    THEN <<global_stats.counts[kv] - 1, global_stats.total_envs>>
    ELSE DefaultRate

GlobalRate(global_stats, kv) ==
    IF global_stats.total_envs > 0 /\ kv \in DOMAIN global_stats.counts
    THEN <<global_stats.counts[kv], global_stats.total_envs>>
    ELSE DefaultRate

\* line 310: significance_score > 1.5 and occurrence_rate > 0.65, with
\* occurrence_rate = occ[1]/occ[2], global_rate = glob[1]/glob[2]
SigNum == 3
SigDen == 2
FloorNum == 65
FloorDen == 100

\* the two comparisons made inclusive
IsSignificantInclusive(occ, glob) ==
    /\ SigDen * occ[1] * glob[2] >= SigNum * occ[2] * glob[1]
    /\ FloorDen * occ[1] >= FloorNum * occ[2]

\* line 310
IsSignificant(occ, glob) ==
    /\ SigDen * occ[1] * glob[2] > SigNum * occ[2] * glob[1]
    /\ FloorDen * occ[1] > FloorNum * occ[2]

\* _analyze_cluster_config_patterns (lines 259-325): the patterns created
\* for a cluster with the member records cluster_data
_analyze_cluster_config_patterns(cluster_data, global_stats) ==
    LET cluster_size == Len(cluster_data)
        items == UNION {ConfigItems(cluster_data[i].env) :
                          i \in 1..cluster_size}
        count(kv) == Cardinality({i \in 1..cluster_size :
                                    kv \in ConfigItems(cluster_data[i].env)})
    IN  { [config_key |-> kv[1], config_value |-> kv[2],
           occurrence_rate |-> <<count(kv), cluster_size>>,
           global_rate |-> GlobalRate(global_stats, kv)] :
          kv \in {x \in items :
                    IsSignificant(<<count(x), cluster_size>>,
                                  GlobalRate(global_stats, x))} }

VARIABLES
    envs,       \* EnvSnapshot table: a set of rows
    beacons,    \* Beacon table: rows in primary-key order
    tpc,        \* per request thread: where its handler stands
    treq,       \* per request thread: the request being handled
    tresp,      \* per request thread: the response to its last request
    clusters,   \* ErrorCluster table: a set of rows
    patterns,   \* ConfigPattern table: a set of rows
    analyses,   \* ErrorAnalysis table: rows in insertion order
    nextId,     \* the next primary key of the ErrorCluster table
    started,    \* the number of invocations of the analysis command so far
    run,        \* per analysis process: the locals of Command.handle
    hist,       \* per analysis process: what its invocation found and made
    class_model,    \* ConfigSuggestionService._model
    view_service,   \* SuggestView._suggestion_service: 0 (None) or an instance
    services,       \* the ConfigSuggestionService instances: each one's _model
    loads,          \* the number of SentenceTransformer constructions so far
    call,       \* the last direct call of an engine function: name, arguments
    ret         \* what that call returned

telemetryVars == <<envs, beacons, tpc, treq, tresp>>
storeVars == <<clusters, patterns, analyses, nextId>>
runVars == <<started, run, hist>>
encoderVars == <<class_model, view_service, services, loads>>
callVars == <<call, ret>>
vars == <<envs, beacons, tpc, treq, tresp, clusters, patterns, analyses,
          nextId, started, run, hist, class_model, view_service, services,
          loads, call, ret>>

Runners == {"r1", "r2"}

NoReq == [op |-> "none"]
NoResp == [op |-> "none"]

Identity(e) == <<e.env_hash, e.machine_arch>>

\* EnvSnapshot.objects.filter(env_hash=h).exists()
EnvExists(h) == \E e \in envs : e.env_hash = h

\* a row with this (env_hash, machine_arch) is stored
IdentityStored(d) == \E e \in envs : Identity(e) = Identity(d)

(***************************************************************************)
(* EnvView.post                                                            *)
(***************************************************************************)
\* EnvSnapshotIn is a ModelSerializer over all fields of a model with
\* unique_together = (env_hash, machine_arch): is_valid runs the
\* unique-together validator the serializer derives from the model, which
\* queries the table and rejects a payload whose identity is stored.
EnvIsValid(d) == ~IdentityStored(d)

\* views.py 13-14: the request arrives and is validated
EnvValidate(t, d) ==
    /\ tpc[t] = "idle"
    /\ IF EnvIsValid(d)
       THEN /\ tpc' = [tpc EXCEPT ![t] = "goc_get"]
            /\ treq' = [treq EXCEPT ![t] = [op |-> "env", data |-> d]]
            /\ tresp' = [tresp EXCEPT ![t] = NoResp]
       ELSE /\ tresp' = [tresp EXCEPT ![t] =
                    [op |-> "env", status |-> 400, stored |-> FALSE,
                     data |-> d]]
            /\ UNCHANGED <<tpc, treq>>
    /\ UNCHANGED <<envs, beacons, storeVars, runVars, callVars, encoderVars>>

\* views.py 15-19, get_or_create: the lookup
EnvGet(t) ==
    /\ tpc[t] = "goc_get"
    /\ IF IdentityStored(treq[t].data)
       THEN /\ tpc' = [tpc EXCEPT ![t] = "idle"]
            /\ treq' = [treq EXCEPT ![t] = NoReq]
            /\ tresp' = [tresp EXCEPT ![t] =
                    [op |-> "env", status |-> 200, stored |-> FALSE,
                     data |-> treq[t].data]]
       ELSE /\ tpc' = [tpc EXCEPT ![t] = "goc_create"]
            /\ UNCHANGED <<treq, tresp>>
    /\ UNCHANGED <<envs, beacons, storeVars, runVars, callVars, encoderVars>>

\* views.py 15-20, get_or_create: the insert; the table's unique constraint
\* (models.py 13-14) refuses a second row of the same identity, get_or_create
\* then returns the stored row with created = False
EnvCreate(t) ==
    /\ tpc[t] = "goc_create"
    /\ LET d == treq[t].data
           created == ~IdentityStored(d)
       IN  /\ envs' = IF created THEN envs \cup {d} ELSE envs
           /\ tresp' = [tresp EXCEPT ![t] =
                   [op |-> "env", status |-> 200, stored |-> created,
                    data |-> d]]
    /\ tpc' = [tpc EXCEPT ![t] = "idle"]
    /\ treq' = [treq EXCEPT ![t] = NoReq]
    /\ UNCHANGED <<beacons, storeVars, runVars, callVars, encoderVars>>

(***************************************************************************)
(* BeaconView.post                                                         *)
(***************************************************************************)
\* serializers.py 26-31, BeaconIn.validate
BeaconIsValid(d) ==
    ~(d.kind = "error" /\ ~(d.error_sig # NoText \/ d.trace # NoText))

\* views.py 25-28 and 38-40: validation and save; a validation error is
\* caught by the handler's own except clause and answered with 500
BeaconSave(t, d) ==
    /\ tpc[t] = "idle"
    /\ Len(beacons) < MaxPosted
    /\ IF BeaconIsValid(d)
       THEN /\ beacons' = Append(beacons, d)
            /\ tpc' = [tpc EXCEPT ![t] = "need_env"]
            /\ treq' = [treq EXCEPT ![t] = [op |-> "beacon", data |-> d]]
            /\ tresp' = [tresp EXCEPT ![t] = NoResp]
       ELSE /\ tresp' = [tresp EXCEPT ![t] =
                    [op |-> "beacon", status |-> 500, stored |-> FALSE,
                     data |-> d]]
            /\ UNCHANGED <<beacons, tpc, treq>>
    /\ UNCHANGED <<envs, storeVars, runVars, callVars, encoderVars>>

\* the answer of a handler that asks for the snapshot when it already has it
need_env_inverted(d) == EnvExists(d.env_hash)

\* views.py 31: need_env = not EnvSnapshot.objects.filter(env_hash=...).exists()
need_env(d) == ~EnvExists(d.env_hash)

\* views.py 31-37
BeaconReply(t) ==
    /\ tpc[t] = "need_env"
    /\ LET d == treq[t].data
       IN  tresp' = [tresp EXCEPT ![t] =
               [op |-> "beacon", status |-> IF need_env(d) THEN 204 ELSE 200,
                stored |-> TRUE, data |-> d]]
    /\ tpc' = [tpc EXCEPT ![t] = "idle"]
    /\ treq' = [treq EXCEPT ![t] = NoReq]
    /\ UNCHANGED <<envs, beacons, storeVars, runVars, callVars, encoderVars>>

(***************************************************************************)
(* run_analysis.py: Command.handle, one analysis process per invocation.   *)
(***************************************************************************)
IdleRun ==
    [pc |-> "idle", error_texts |-> << >>, beacon_env_data |-> << >>,
     cluster_labels |-> << >>, total_envs |-> 0, counts |-> << >>,
     cluster_id |-> 0, clusters_created |-> 0, patterns_created |-> 0,
     raised |-> "none"]

NoHist ==
    [clusters |-> {}, patterns |-> {}, analyses |-> 0, made |-> {},
     members |-> {}]

Terminal == {"idle", "noop", "done", "failed", "crashed"}

\* the process is between the start and the end of handle
Active(p) == run[p].pc \notin Terminal

\* an emptiness test on the texts instead of the working set
WorkingSetEmptyByTexts(ing) == ing.error_texts = << >>

\* line 119: if not beacon_env_data
WorkingSetEmpty(ing) == ing.beacon_env_data = << >>

\* lines 69-124: the command starts, reads the error beacons and builds the
\* working set.  MultipleObjectsReturned is not caught: the command dies.
RunStart(p) ==
    /\ ~Active(p)
    /\ started < MaxRuns
    /\ started' = started + 1
    /\ hist' = [hist EXCEPT ![p] =
                   [clusters |-> clusters, patterns |-> patterns,
                    analyses |-> Len(analyses), made |-> {},
                    members |-> {}]]
    /\ IF ~HasErrorBeacons(beacons)
       THEN run' = [run EXCEPT ![p] = [IdleRun EXCEPT !.pc = "noop"]]
       ELSE LET ing == Ingest(beacons, envs)
            IN  IF ing.raised # "none"
                THEN run' = [run EXCEPT ![p] =
                        [IdleRun EXCEPT !.pc = "crashed",
                                        !.raised = ing.raised]]
                ELSE IF WorkingSetEmpty(ing)
                THEN run' = [run EXCEPT ![p] = [IdleRun EXCEPT !.pc = "noop"]]
                ELSE run' = [run EXCEPT ![p] =
                        [IdleRun EXCEPT !.pc = "clear_clusters",
                             !.error_texts = ing.error_texts,
                             !.beacon_env_data = ing.beacon_env_data]]
    /\ UNCHANGED <<telemetryVars, callVars, storeVars, encoderVars>>

\* line 127: ErrorCluster.objects.all().delete(); the patterns of a deleted
\* cluster go with it (on_delete=CASCADE)
RunClearClusters(p) ==
    /\ run[p].pc = "clear_clusters"
    /\ clusters' = {}
    /\ patterns' = {pt \in patterns : pt.cluster \notin {c.id : c \in clusters}}
    /\ run' = [run EXCEPT ![p].pc = "clear_patterns"]
    /\ UNCHANGED <<telemetryVars, callVars, analyses, nextId, started, hist, encoderVars>>

\* line 128: ConfigPattern.objects.all().delete()
RunClearPatterns(p) ==
    /\ run[p].pc = "clear_patterns"
    /\ patterns' = {}
    /\ run' = [run EXCEPT ![p].pc = "cluster"]
    /\ UNCHANGED <<telemetryVars, callVars, clusters, analyses, nextId, started, hist,
                   encoderVars>>

\* lines 131-148: encode, cluster, compute the global baseline
RunCluster(p) ==
    /\ run[p].pc = "cluster"
    /\ LET gs == _calculate_global_config_stats(envs)
       IN  run' = [run EXCEPT ![p].pc = "insert",
                       ![p].cluster_labels = ClusterLabels(run[p].error_texts),
                       ![p].total_envs = gs.total_envs,
                       ![p].counts = gs.counts,
                       ![p].cluster_id = 0]
    /\ UNCHANGED <<telemetryVars, callVars, storeVars, started, hist, encoderVars>>

\* lines 194-196: a fault inside the try block (the encoder does not load,
\* encode or fit_predict raises, the database refuses an insert) is caught
\* and the command returns
RunFault(p) ==
    /\ run[p].pc \in {"cluster", "insert"}
    /\ run' = [run EXCEPT ![p].pc = "failed", ![p].raised = "Exception"]
    /\ UNCHANGED <<telemetryVars, callVars, storeVars, started, hist, encoderVars>>

\* hashlib.sha256(sig.encode()).hexdigest()[:32] (line 166): a digest, taken
\* as collision-free, so it stands for the text it was computed from
Sha256Hex32(sig) == <<"sha256", sig>>

\* representative_sig[:500] (line 180)
SigMaxLen == 500
Truncate(sig) == SubSeq(sig, 1, IF Len(sig) < SigMaxLen THEN Len(sig) ELSE SigMaxLen)

\* error_texts.index(text) (line 169): the first position holding text
TextIndex(error_texts, text) ==
    Min({i \in 1..Len(error_texts) : error_texts[i] = text})

\* the positions i of cluster_labels with label cluster_id (lines 155-159)
LabelPositions(cluster_labels, cluster_id) ==
    {i \in 1..Len(cluster_labels) : cluster_labels[i] = cluster_id}

\* positions in increasing order
RECURSIVE SortedSeq(_)
SortedSeq(S) ==
    IF S = {} THEN << >> ELSE <<Min(S)>> \o SortedSeq(S \ {Min(S)})

\* lines 155-159: beacon_env_data[i] raises IndexError for a position past
\* the end of beacon_env_data
ClusterDataRaises(cluster_labels, beacon_env_data, cluster_id) ==
    \E i \in LabelPositions(cluster_labels, cluster_id) :
        i > Len(beacon_env_data)

\* lines 155-159: [beacon_env_data[i] for i, label in enumerate(labels)
\*                 if label == cluster_id]
ClusterData(cluster_labels, beacon_env_data, cluster_id) ==
    LET pos == SortedSeq(LabelPositions(cluster_labels, cluster_id))
    IN  [k \in 1..Len(pos) |-> beacon_env_data[pos[k]]]

\* the cluster ids the loop of line 150 visits, in the order of the set of
\* small non-negative integers; -1 (noise) is skipped
MaxLabel(cluster_labels) ==
    IF cluster_labels = << >> THEN -1
    ELSE CHOOSE m \in {cluster_labels[i] : i \in 1..Len(cluster_labels)} :
            \A i \in 1..Len(cluster_labels) : cluster_labels[i] <= m

MinOf(S) == CHOOSE x \in S : \A y \in S : x <= y
MaxOf(S) == CHOOSE x \in S : \A y \in S : x >= y

\* a row that takes its times from the first and the last member
ClusterRowByPosition(id, cluster_data, error_texts, table) ==
    LET first == table[cluster_data[1].beacon]
        representative_sig ==
            IF first.error_sig # NoText THEN first.error_sig ELSE UnknownError
    IN  [id |-> id,
         cluster_hash |-> Sha256Hex32(representative_sig),
         error_signature |-> Truncate(representative_sig),
         error_count |-> Len(cluster_data),
         first_seen |-> first.ts,
         last_seen |-> table[cluster_data[Len(cluster_data)].beacon].ts,
         embedding |-> Encode(error_texts[TextIndex(error_texts,
                                                    cluster_data[1].text)])]

\* lines 165-185: the ErrorCluster row of cluster_data
ClusterRow(id, cluster_data, error_texts, table) ==
    LET first == table[cluster_data[1].beacon]
        representative_sig ==
            IF first.error_sig # NoText THEN first.error_sig ELSE UnknownError
        times == {table[cluster_data[k].beacon].ts : k \in 1..Len(cluster_data)}
    IN  [id |-> id,
         cluster_hash |-> Sha256Hex32(representative_sig),
         error_signature |-> Truncate(representative_sig),
         error_count |-> Len(cluster_data),
         first_seen |-> MinOf(times),
         last_seen |-> MaxOf(times),
         embedding |-> Encode(error_texts[TextIndex(error_texts,
                                                    cluster_data[1].text)])]

\* lines 311-318: the ConfigPattern rows of a cluster
PatternRows(id, cluster_data, global_stats) ==
    { [cluster |-> id, config_key |-> pt.config_key,
       config_value |-> pt.config_value,
       occurrence_rate |-> pt.occurrence_rate,
       global_rate |-> pt.global_rate] :
      pt \in _analyze_cluster_config_patterns(cluster_data, global_stats) }

\* ErrorCluster.cluster_hash is unique (analysis/models.py 6): create raises
\* IntegrityError when a row with this hash is stored
HashStored(h) == \E c \in clusters : c.cluster_hash = h

\* lines 150-192: one iteration of the loop over the cluster ids, or the
\* end of the loop.  insertPatterns is FALSE when the database fails on the
\* first ConfigPattern of the cluster (the cluster row is already stored).
RunInsert(p, insertPatterns) ==
    /\ run[p].pc = "insert"
    /\ LET r == run[p]
           cid == r.cluster_id
           gs == [total_envs |-> r.total_envs, counts |-> r.counts]
       IN  IF cid > MaxLabel(r.cluster_labels)
           THEN /\ insertPatterns
                /\ run' = [run EXCEPT ![p].pc = "record"]
                /\ UNCHANGED <<storeVars, hist>>
           ELSE IF ClusterDataRaises(r.cluster_labels, r.beacon_env_data, cid)
           THEN /\ insertPatterns
                /\ run' = [run EXCEPT ![p].pc = "failed",
                                      ![p].raised = "IndexError"]
                /\ UNCHANGED <<storeVars, hist>>
           ELSE LET cluster_data ==
                        ClusterData(r.cluster_labels, r.beacon_env_data, cid)
                IN  IF Len(cluster_data) < 2
                    THEN /\ insertPatterns
                         /\ run' = [run EXCEPT ![p].cluster_id = cid + 1]
                         /\ UNCHANGED <<storeVars, hist>>
                    ELSE LET row == ClusterRow(nextId, cluster_data,
                                               r.error_texts, beacons)
                             pts == PatternRows(nextId, cluster_data, gs)
                         IN  IF HashStored(row.cluster_hash)
                             THEN /\ insertPatterns
                                  /\ run' = [run EXCEPT ![p].pc = "failed",
                                               ![p].raised = "IntegrityError"]
                                  /\ UNCHANGED <<storeVars, hist>>
                             ELSE /\ insertPatterns \/ pts # {}
                                  /\ clusters' = clusters \cup {row}
                                  /\ nextId' = nextId + 1
                                  /\ hist' = [hist EXCEPT
                                       ![p].made = @ \cup {row.id},
                                       ![p].members = @ \cup
                                           {<<row.id, cluster_data>>}]
                                  /\ UNCHANGED analyses
                                  /\ IF insertPatterns
                                     THEN /\ patterns' = patterns \cup pts
                                          /\ run' = [run EXCEPT
                                               ![p].cluster_id = cid + 1,
                                               ![p].clusters_created = @ + 1,
                                               ![p].patterns_created =
                                                   @ + Cardinality(pts)]
                                     ELSE /\ patterns' = patterns
                                          /\ run' = [run EXCEPT
                                               ![p].pc = "failed",
                                               ![p].clusters_created = @ + 1,
                                               ![p].raised = "Exception"]
    /\ UNCHANGED <<telemetryVars, callVars, started, encoderVars>>

\* lines 198-205: the ErrorAnalysis row of a completed run
RunRecord(p) ==
    /\ run[p].pc = "record"
    /\ analyses' = Append(analyses,
           [total_errors_analyzed |-> Len(run[p].beacon_env_data),
            clusters_found |-> run[p].clusters_created,
            patterns_found |-> run[p].patterns_created])
    /\ run' = [run EXCEPT ![p].pc = "done"]
    /\ UNCHANGED <<telemetryVars, callVars, clusters, patterns, nextId, started, hist,
                   encoderVars>>

(***************************************************************************)
(* The encoder singleton: SuggestView.__init__ (views.py 46-51) and        *)
(* ConfigSuggestionService.__init__ (services.py 9-18), executed by the    *)
(* request threads of one server process.                                  *)
(***************************************************************************)
MaxServices == 3

ModelNone == [state |-> "None", id |-> 0]
ModelError == [state |-> "ERROR", id |-> 0]
Loaded(k) == [state |-> "loaded", id |-> k]

\* views.py 46-49: a suggestion request arrives, the view is instantiated
SuggestNew(t) ==
    /\ tpc[t] = "idle"
    /\ tresp' = [tresp EXCEPT ![t] = NoResp]
    /\ IF view_service = 0
       THEN /\ Len(services) < MaxServices
            /\ tpc' = [tpc EXCEPT ![t] = "svc_check"]
            /\ treq' = [treq EXCEPT ![t] = [op |-> "suggest", service |-> 0]]
       ELSE /\ tpc' = [tpc EXCEPT ![t] = "post"]
            /\ treq' = [treq EXCEPT ![t] =
                   [op |-> "suggest", service |-> view_service]]
    /\ UNCHANGED <<envs, beacons, storeVars, runVars, callVars, encoderVars>>

\* a caller other than the view constructs a ConfigSuggestionService
ServiceNew(t) ==
    /\ tpc[t] = "idle"
    /\ Len(services) < MaxServices
    /\ tresp' = [tresp EXCEPT ![t] = NoResp]
    /\ tpc' = [tpc EXCEPT ![t] = "svc_check"]
    /\ treq' = [treq EXCEPT ![t] = [op |-> "service", service |-> 0]]
    /\ UNCHANGED <<envs, beacons, storeVars, runVars, callVars, encoderVars>>

\* services.py 11: if ConfigSuggestionService._model is None
ServiceCheck(t) ==
    /\ tpc[t] = "svc_check"
    /\ tpc' = [tpc EXCEPT ![t] =
           IF class_model = ModelNone THEN "svc_load" ELSE "svc_bind"]
    /\ UNCHANGED <<envs, beacons, treq, tresp, storeVars, runVars, callVars, encoderVars>>

\* services.py 12-17: SentenceTransformer(...) is constructed and assigned,
\* or raises and the flag "ERROR" is assigned
ServiceLoad(t, ok) ==
    /\ tpc[t] = "svc_load"
    /\ loads' = loads + 1
    /\ class_model' = IF ok THEN Loaded(loads + 1) ELSE ModelError
    /\ tpc' = [tpc EXCEPT ![t] = "svc_bind"]
    /\ UNCHANGED <<envs, beacons, treq, tresp, storeVars, runVars, callVars,
                   view_service, services>>

\* services.py 18: self._model = ConfigSuggestionService._model
ServiceBind(t) ==
    /\ tpc[t] = "svc_bind"
    /\ services' = Append(services, class_model)
    /\ IF treq[t].op = "suggest"
       THEN /\ tpc' = [tpc EXCEPT ![t] = "sv_assign"]
            /\ treq' = [treq EXCEPT ![t].service = Len(services) + 1]
            /\ UNCHANGED tresp
       ELSE /\ tpc' = [tpc EXCEPT ![t] = "idle"]
            /\ treq' = [treq EXCEPT ![t] = NoReq]
            /\ tresp' = [tresp EXCEPT ![t] =
                   [op |-> "service", service |-> Len(services) + 1,
                    model |-> class_model]]
    /\ UNCHANGED <<envs, beacons, storeVars, runVars, callVars, class_model,
                   view_service, loads>>

\* views.py 50: SuggestView._suggestion_service = ConfigSuggestionService()
ViewAssign(t) ==
    /\ tpc[t] = "sv_assign"
    /\ view_service' = treq[t].service
    /\ tpc' = [tpc EXCEPT ![t] = "sv_bind"]
    /\ UNCHANGED <<envs, beacons, treq, tresp, storeVars, runVars, callVars,
                   class_model, services, loads>>

\* views.py 51: self.suggestion_service = SuggestView._suggestion_service
ViewBind(t) ==
    /\ tpc[t] = "sv_bind"
    /\ treq' = [treq EXCEPT ![t].service = view_service]
    /\ tpc' = [tpc EXCEPT ![t] = "post"]
    /\ UNCHANGED <<envs, beacons, tresp, storeVars, runVars, callVars, encoderVars>>

(***************************************************************************)
(* services.py: the suggestion engine (find_config_suggestion, lines       *)
(* 20-101, and find_multiple_cluster_suggestions, lines 130-225).  A       *)
(* similarity is kept as the dot product and the two squared norms, and a  *)
(* threshold as <<numerator, denominator>> with a positive denominator, so *)
(* that every comparison is exact.  The rendered suggestion text and the   *)
(* percentage derived from it (lines 81-82, 194-195) are not modelled.     *)
(***************************************************************************)
\* lines 61-63, 170-172: np.dot(q, c) / (norm(q) * norm(c))
Similarity(q, c) == [dot |-> Dot(q, c), qq |-> Dot(q, q), cc |-> Dot(c, c)]

\* x > y for two similarities
SimGreater(x, y) ==
    IF x.dot > 0 /\ y.dot <= 0 THEN TRUE
    ELSE IF x.dot <= 0 /\ y.dot > 0 THEN FALSE
    ELSE IF x.dot > 0
    THEN x.dot * x.dot * y.qq * y.cc > y.dot * y.dot * x.qq * x.cc
    ELSE x.dot * x.dot * y.qq * y.cc < y.dot * y.dot * x.qq * x.cc

\* x >= th for a similarity x and a threshold th
SimAtLeast(x, th) ==
    IF th[1] > 0
    THEN /\ x.dot > 0
         /\ th[2] * th[2] * x.dot * x.dot >= th[1] * th[1] * x.qq * x.cc
    ELSE \/ x.dot >= 0
         \/ th[2] * th[2] * x.dot * x.dot <= th[1] * th[1] * x.qq * x.cc

\* run_analysis.py 307: significance_score = occurrence_rate / global_rate,
\* the value stored with the pattern (line 317)
significance_score(pt) ==
    <<pt.occurrence_rate[1] * pt.global_rate[2],
      pt.occurrence_rate[2] * pt.global_rate[1]>>

\* a >= b for two fractions with positive denominators
FracAtLeast(a, b) == a[1] * b[2] >= b[1] * a[2]

\* the orders in which a query without order_by may deliver the rows S
RECURSIVE Perms(_)
Perms(S) ==
    IF S = {} THEN {<< >>}
    ELSE UNION {{<<x>> \o q : q \in Perms(S \ {x})} : x \in S}

\* cluster.config_patterns.order_by('-significance_score'): the orders the
\* database may deliver; rows of equal score come in any order
OrderedBySignificance(P) ==
    {q \in Perms(P) :
        \A i \in 1..(Len(q) - 1) :
            FracAtLeast(significance_score(q[i]), significance_score(q[i + 1]))}

\* a slice that forgets its limit
TakeAll(q, n) == q

\* q[:n]
Take(q, n) == SubSeq(q, 1, IF Len(q) < n THEN Len(q) ELSE n)

\* lines 84-90, 197-203: the suggestion built from a pattern
Suggestion(pt) ==
    [config_key |-> pt.config_key, config_value |-> pt.config_value,
     significance_score |-> significance_score(pt), cluster |-> pt.cluster]

None == [match |-> FALSE]

\* lines 25-37, 135-147: the checks before the store is read.  model is the
\* instance's _model; the answer is "return None" or "go on"
ShortCircuits(model, error_sig, error_trace) ==
    \/ error_sig = NoText /\ error_trace = NoText
    \/ Strip(IF error_sig # NoText THEN error_sig ELSE Unknown) = << >>
    \/ model = ModelError
    \/ model = ModelNone

\* line 29, 47: the text handed to the encoder
QueryText(error_sig) ==
    Strip(IF error_sig # NoText THEN error_sig ELSE Unknown)

\* a scan that passes over the clusters without patterns
RECURSIVE BestMatchWithPatterns(_, _, _, _, _)
BestMatchWithPatterns(rows, i, best, q, threshold) ==
    IF i > Len(rows) THEN best
    ELSE LET similarity == Similarity(q, rows[i].embedding)
             above == IF best = 0 THEN similarity.dot > 0
                      ELSE SimGreater(similarity,
                                      Similarity(q, rows[best].embedding))
             has == \E pt \in patterns : pt.cluster = rows[i].id
         IN  BestMatchWithPatterns(rows, i + 1,
                 IF above /\ has /\ SimAtLeast(similarity, threshold)
                 THEN i ELSE best,
                 q, threshold)

\* lines 53-67: the scan for the best match over the clusters in the order
\* rows; best is 0 (None, best_similarity 0) or the position of the best
\* match so far
RECURSIVE BestMatchFrom(_, _, _, _, _)
BestMatchFrom(rows, i, best, q, threshold) ==
    IF i > Len(rows) THEN best
    ELSE LET similarity == Similarity(q, rows[i].embedding)
             above == IF best = 0 THEN similarity.dot > 0
                      ELSE SimGreater(similarity,
                                      Similarity(q, rows[best].embedding))
         IN  BestMatchFrom(rows, i + 1,
                 IF above /\ SimAtLeast(similarity, threshold) THEN i ELSE best,
                 q, threshold)

\* find_config_suggestion (lines 20-101).  rows is the order in which the
\* clusters are delivered, byScore the order_by of every cluster's patterns,
\* encodes is FALSE when model.encode raises
find_config_suggestion(model, rows, byScore, encodes, error_sig, error_trace, threshold, max_suggestions) ==
    IF ShortCircuits(model, error_sig, error_trace) THEN None
    ELSE IF rows = << >> THEN None
    ELSE IF ~encodes THEN None
    ELSE LET q == Encode(QueryText(error_sig))
             best == BestMatchFrom(rows, 1, 0, q, threshold)
         IN  IF best = 0 THEN None
             ELSE LET best_match == rows[best]
                      significant_patterns ==
                          Take(byScore[best_match.id], max_suggestions)
                  IN  IF significant_patterns = << >> THEN None
                      ELSE [match |-> TRUE,
                            similarity |->
                                Similarity(q, best_match.embedding),
                            best_match |-> best_match.id,
                            total_similar_errors |-> best_match.error_count,
                            suggestions |->
                                [k \in 1..Len(significant_patterns) |->
                                    Suggestion(significant_patterns[k])],
                            cluster_info |->
                                [first_seen |-> best_match.first_seen,
                                 last_seen |-> best_match.last_seen,
                                 error_signature |->
                                     best_match.error_signature]]

\* list.sort(key=similarity, reverse=True) (line 178): stable, so rows of
\* equal similarity keep their order
RECURSIVE SortBySimilarity(_, _)
SortBySimilarity(rows, q) ==
    IF rows = << >> THEN << >>
    ELSE LET x == rows[Len(rows)]
             sorted == SortBySimilarity(SubSeq(rows, 1, Len(rows) - 1), q)
             less == {i \in 1..Len(sorted) :
                        SimGreater(Similarity(q, x.embedding),
                                   Similarity(q, sorted[i].embedding))}
             at == IF less = {} THEN Len(sorted) + 1 ELSE Min(less)
         IN  SubSeq(sorted, 1, at - 1) \o <<x>>
                 \o SubSeq(sorted, at, Len(sorted))

\* the merged list left as collected
Unsorted(sugs) == sugs

\* list.sort(key=significance_score, reverse=True) (line 219): stable
RECURSIVE SortBySignificance(_)
SortBySignificance(sugs) ==
    IF sugs = << >> THEN << >>
    ELSE LET x == sugs[Len(sugs)]
             sorted == SortBySignificance(SubSeq(sugs, 1, Len(sugs) - 1))
             less == {i \in 1..Len(sorted) :
                        ~FracAtLeast(sorted[i].significance_score,
                                     x.significance_score)}
             at == IF less = {} THEN Len(sorted) + 1 ELSE Min(less)
         IN  SubSeq(sorted, 1, at - 1) \o <<x>>
                 \o SubSeq(sorted, at, Len(sorted))

\* lines 192-203: the suggestions taken from one kept cluster
ClusterSuggestions(cluster, byScore, max_suggestions_per_cluster) ==
    LET significant_patterns ==
            Take(byScore[cluster.id], max_suggestions_per_cluster)
    IN  [k \in 1..Len(significant_patterns) |->
            Suggestion(significant_patterns[k])]

\* lines 185-213: the loop over the kept clusters from position i on; acc
\* holds all_suggestions and cluster_info
RECURSIVE CollectFrom(_, _, _, _, _, _)
CollectFrom(similar_clusters, i, acc, q, byScore, max_suggestions_per_cluster) ==
    IF i > Len(similar_clusters) THEN acc
    ELSE LET cluster == similar_clusters[i]
             cluster_suggestions ==
                 ClusterSuggestions(cluster, byScore,
                                    max_suggestions_per_cluster)
         IN  CollectFrom(similar_clusters, i + 1,
                 IF cluster_suggestions = << >> THEN acc
                 ELSE [all_suggestions |->
                           acc.all_suggestions \o cluster_suggestions,
                       cluster_info |-> Append(acc.cluster_info,
                           [similarity |-> Similarity(q, cluster.embedding),
                            error_count |-> cluster.error_count,
                            first_seen |-> cluster.first_seen,
                            last_seen |-> cluster.last_seen,
                            error_signature |-> cluster.error_signature])],
                 q, byScore, max_suggestions_per_cluster)

\* lines 163-179: the kept clusters, in order
SimilarClusters(rows, q, threshold, max_clusters) ==
    LET Reaches(r) == SimAtLeast(Similarity(q, r.embedding), threshold)
    IN  Take(SortBySimilarity(SelectSeq(rows, Reaches), q), max_clusters)

\* find_multiple_cluster_suggestions (lines 130-225)
find_multiple_cluster_suggestions(model, rows, byScore, encodes, error_sig, error_trace, threshold, max_clusters, max_suggestions_per_cluster) ==
    IF ShortCircuits(model, error_sig, error_trace) THEN None
    ELSE IF rows = << >> THEN None
    ELSE IF ~encodes THEN None
    ELSE LET q == Encode(QueryText(error_sig))
             similar_clusters ==
                 SimilarClusters(rows, q, threshold, max_clusters)
             got == CollectFrom(similar_clusters, 1,
                        [all_suggestions |-> << >>, cluster_info |-> << >>],
                        q, byScore, max_suggestions_per_cluster)
         IN  IF similar_clusters = << >> THEN None
             ELSE IF got.all_suggestions = << >> THEN None
             ELSE [match |-> TRUE,
                   suggestions |-> SortBySignificance(got.all_suggestions),
                   clusters_analyzed |-> Len(got.cluster_info),
                   cluster_info |-> got.cluster_info]

(***************************************************************************)
(* views.py: SuggestView.post (lines 53-133).                              *)
(***************************************************************************)
\* the request bodies a client may send: error_sig and use_multiple_clusters
SuggestInputs ==
    { [error_sig |-> NoText, use_multiple_clusters |-> FALSE],
      [error_sig |-> SigE, use_multiple_clusters |-> FALSE],
      [error_sig |-> SigE, use_multiple_clusters |-> TRUE],
      [error_sig |-> Unknown, use_multiple_clusters |-> FALSE] }

\* the defaults of the two engine functions (services.py 20, 130), which
\* the view does not override
DefaultThreshold == <<9, 10>>
DefaultMaxSuggestions == 3
DefaultMultiThreshold == <<8, 10>>
DefaultMaxClusters == 2
DefaultMaxPerCluster == 2

\* the patterns of the cluster with primary key id
PatternsOf(id) == {pt \in patterns : pt.cluster = id}

\* for every stored cluster, one of the orders order_by may deliver
ByScoreChoices ==
    LET ids == {c.id : c \in clusters}
    IN  {f \in [ids -> UNION {OrderedBySignificance(PatternsOf(id)) : id \in ids}] :
            \A id \in ids : f[id] \in OrderedBySignificance(PatternsOf(id))}

\* config_suggestion.get("similarity", 0.0) when the key is absent (line 104)
ZeroConfidence == [dot |-> 0, qq |-> 1, cc |-> 1]

\* lines 76-128: the response body built from config_suggestion
SuggestionData(config_suggestion) ==
    IF ~config_suggestion.match THEN [match |-> FALSE]
    ELSE [match |-> TRUE,
          confidence |->
              IF "similarity" \in DOMAIN config_suggestion
              THEN config_suggestion.similarity ELSE ZeroConfidence,
          all_suggestions |-> config_suggestion.suggestions,
          cluster_info |->
              IF "clusters_analyzed" \in DOMAIN config_suggestion
              THEN config_suggestion.cluster_info ELSE << >>,
          clusters_analyzed |->
              IF "clusters_analyzed" \in DOMAIN config_suggestion
              THEN config_suggestion.clusters_analyzed ELSE 0]

\* the encoder was reached and raised (services.py 46-50, 156-160)
EncodeRaised(model, rows, encodes, error_sig) ==
    /\ ~ShortCircuits(model, error_sig, NoText)
    /\ rows # << >>
    /\ ~encodes

\* lines 53-133.  d is the request body; rows, byScore and encodes are what
\* the database and the encoder do during the request
SuggestPost(t, d, rows, byScore, encodes) ==
    /\ tpc[t] = "post"
    /\ LET model == services[treq[t].service]
           config_suggestion ==
               IF d.use_multiple_clusters
               THEN find_multiple_cluster_suggestions(model, rows, byScore,
                        encodes, d.error_sig, NoText, DefaultMultiThreshold,
                        DefaultMaxClusters, DefaultMaxPerCluster)
               ELSE find_config_suggestion(model, rows, byScore, encodes,
                        d.error_sig, NoText, DefaultThreshold,
                        DefaultMaxSuggestions)
       IN  tresp' = [tresp EXCEPT ![t] =
               IF d.error_sig = NoText
               THEN [op |-> "suggest", service |-> treq[t].service,
                     model |-> model, data |-> d, status |-> 400,
                     encode_raised |-> FALSE, body |-> [match |-> FALSE]]
               ELSE [op |-> "suggest", service |-> treq[t].service,
                     model |-> model, data |-> d, status |-> 200,
                     encode_raised |->
                         EncodeRaised(model, rows, encodes, d.error_sig),
                     body |-> SuggestionData(config_suggestion)]]
    /\ tpc' = [tpc EXCEPT ![t] = "idle"]
    /\ treq' = [treq EXCEPT ![t] = NoReq]
    /\ UNCHANGED <<envs, beacons, storeVars, runVars, callVars, encoderVars>>

(***************************************************************************)
(* The specifications.                                                     *)
(***************************************************************************)
EmptyStore ==
    /\ clusters = {}
    /\ patterns = {}
    /\ analyses = << >>
    /\ nextId = 1

NoRuns ==
    /\ started = 0
    /\ run = [p \in Runners |-> IdleRun]
    /\ hist = [p \in Runners |-> NoHist]

\* services.py 7, views.py 44: the class attributes of a fresh process
NoEncoder ==
    /\ class_model = ModelNone
    /\ view_service = 0
    /\ services = << >>
    /\ loads = 0

\* no engine function has been called directly
NoCall ==
    /\ call = [fn |-> "none"]
    /\ ret = [fn |-> "none"]

NoRequests ==
    /\ tpc = [t \in Threads |-> "idle"]
    /\ treq = [t \in Threads |-> NoReq]
    /\ tresp = [t \in Threads |-> NoResp]

\* the server after deployment: empty tables, no request, no run
Init ==
    /\ envs = {}
    /\ beacons = << >>
    /\ NoRequests
    /\ EmptyStore
    /\ NoRuns
    /\ NoEncoder
    /\ NoCall

\* the telemetry endpoints under concurrent requests
Next ==
    \E t \in Threads :
        \/ \E d \in EnvInputs : EnvValidate(t, d)
        \/ EnvGet(t)
        \/ EnvCreate(t)
        \/ \E d \in BeaconInputs : BeaconSave(t, d)
        \/ BeaconReply(t)

Spec == Init /\ [][Next]_vars

\* the tables the endpoints can have filled: snapshots with distinct
\* identities, beacons that passed validation
EnvTables ==
    {T \in SUBSET EnvInputs :
        \A e1, e2 \in T : Identity(e1) = Identity(e2) => e1 = e2}

RECURSIVE SeqsUpTo(_, _)
SeqsUpTo(S, n) ==
    IF n = 0 THEN {<< >>}
    ELSE LET shorter == SeqsUpTo(S, n - 1)
         IN  shorter \cup {Append(q, x) : q \in shorter, x \in S}

BeaconTables == SeqsUpTo({d \in BeaconInputs : BeaconIsValid(d)}, MaxBeacons)

InitRun ==
    /\ envs \in EnvTables
    /\ beacons \in BeaconTables
    /\ NoRequests
    /\ EmptyStore
    /\ NoRuns
    /\ NoEncoder
    /\ NoCall

\* invocations of the analysis command over filled tables; nothing keeps two
\* invocations from running at once
NextRun ==
    \E p \in Runners :
        \/ RunStart(p)
        \/ RunClearClusters(p)
        \/ RunClearPatterns(p)
        \/ RunCluster(p)
        \/ RunFault(p)
        \/ \E insertPatterns \in BOOLEAN : RunInsert(p, insertPatterns)
        \/ RunRecord(p)

SpecRun == InitRun /\ [][NextRun]_vars

\* one analysis process, invoked again only after it has ended
NextSolo ==
    \/ RunStart("r1")
    \/ RunClearClusters("r1")
    \/ RunClearPatterns("r1")
    \/ RunCluster("r1")
    \/ RunFault("r1")
    \/ \E insertPatterns \in BOOLEAN : RunInsert("r1", insertPatterns)
    \/ RunRecord("r1")

SpecSolo == InitRun /\ [][NextSolo]_vars

\* the number of error beacons of the scorer's tables
ScorerSize == 20

\* a snapshot without packages and environment variables
ScorerEnv(h, arch, py, os) ==
    [env_hash |-> h, machine_arch |-> arch, python_ver |-> py,
     os_info |-> os, pform |-> "none", pdict |-> << >>, plist |-> << >>,
     has_vars |-> FALSE, env_vars |-> << >>]

\* the snapshots of two reporting machines (env_hash 'h' and 'x:h', python
\* 3.11 and 3.12, otherwise alike)
ScorerA == CHOOSE e \in EnvInputs : e.env_hash = H1 /\ e.python_ver = Py311
ScorerB == CHOOSE e \in EnvInputs : e.env_hash = H2

\* snapshot tables: the two machines alone, or with four machines that
\* report no error
ScorerEnvTables ==
    { {ScorerA, ScorerB},
      {ScorerA, ScorerB,
       ScorerEnv(<<"c">>, X86, Py312, Darwin),
       ScorerEnv(<<"d">>, X86, Py312, Darwin),
       ScorerEnv(<<"c">>, Arm, Py312, Darwin),
       ScorerEnv(<<"d">>, Arm, Py312, Darwin)} }

\* ScorerSize error beacons with distinct signatures of one family (their
\* texts embed alike), the first k from machine 'h', the others from 'x:h'
ScorerBeacons(k) ==
    [i \in 1..ScorerSize |->
        [kind |-> "error", env_hash |-> IF i <= k THEN H1 ELSE H2,
         error_sig |-> <<"F", LowerChars[i]>>, trace |-> NoText, ts |-> i]]

InitScorer ==
    /\ envs \in ScorerEnvTables
    /\ beacons \in {ScorerBeacons(k) : k \in 0..ScorerSize}
    /\ NoRequests
    /\ EmptyStore
    /\ NoRuns
    /\ NoEncoder
    /\ NoCall

\* one analysis process over a table whose errors form one large cluster
SpecScorer == InitScorer /\ [][NextSolo]_vars

\* suggestion requests and service constructions in one server process
NextEncoder ==
    \E t \in Threads :
        \/ SuggestNew(t)
        \/ ServiceNew(t)
        \/ ServiceCheck(t)
        \/ \E ok \in BOOLEAN : ServiceLoad(t, ok)
        \/ ServiceBind(t)
        \/ ViewAssign(t)
        \/ ViewBind(t)
        \/ \E d \in SuggestInputs, rows \in Perms(clusters),
              byScore \in ByScoreChoices, encodes \in BOOLEAN :
                SuggestPost(t, d, rows, byScore, encodes)

SpecEncoder == Init /\ [][NextEncoder]_vars

\* an ErrorCluster row as a run stores it for the representative sig
StoredCluster(id, sig) ==
    [id |-> id, cluster_hash |-> Sha256Hex32(sig),
     error_signature |-> Truncate(sig), error_count |-> 2,
     first_seen |-> 1, last_seen |-> 2, embedding |-> Encode(sig)]

\* a ConfigPattern row as a run stores it
StoredPattern(id, key, value, occurrence_rate, global_rate) ==
    [cluster |-> id, config_key |-> <<key, << >> >>, config_value |-> value,
     occurrence_rate |-> occurrence_rate, global_rate |-> global_rate]

\* the server with one cluster and its patterns left by an analysis run,
\* before the first suggestion request
InitDegraded ==
    /\ envs = {}
    /\ beacons = << >>
    /\ NoRequests
    /\ clusters = {StoredCluster(1, SigE)}
    /\ patterns \in
         { {},
           {StoredPattern(1, "python_ver", Py312, <<2, 2>>, <<1, 2>>),
            StoredPattern(1, "os_info", Linux, <<2, 2>>, <<1, 3>>)} }
    /\ analyses = << >>
    /\ nextId = 2
    /\ NoRuns
    /\ NoEncoder
    /\ NoCall

SpecDegraded == InitDegraded /\ [][NextEncoder]_vars

\* the cluster of the errors without a signature: its representative text
\* is "unknown", its signature the placeholder of line 165
PlaceholderCluster(id) ==
    [StoredCluster(id, UnknownError) EXCEPT !.embedding = Encode(Unknown)]

\* the number of clusters in the stores the engine is called on, and the
\* largest max_suggestions, max_clusters and max_suggestions_per_cluster
MaxStored == 3
MaxArg == 3

SuggestClusters ==
    { StoredCluster(1, SigE), StoredCluster(2, SigEx), StoredCluster(3, SigEy),
      PlaceholderCluster(4), StoredCluster(5, <<"F", "a">>) }

\* the first n of three patterns of cluster id; the second and the third
\* have the same significance_score
SuggestPatterns(id, n) ==
    (IF n >= 1
     THEN {StoredPattern(id, "python_ver", Py312, <<2, 2>>, <<1, 3 + id>>)}
     ELSE {})
    \cup (IF n >= 2
          THEN {StoredPattern(id, "os_info", Linux, <<2, 2>>, <<1, 2>>)}
          ELSE {})
    \cup (IF n >= 3
          THEN {StoredPattern(id, "machine_arch", X86, <<2, 2>>, <<1, 2>>)}
          ELSE {})

\* the numbers of patterns cluster id may have
PatternCounts(id) == IF id = 2 THEN {0, 3} ELSE {0, 2}

\* the stores an analysis run can leave: the representatives of two
\* clusters of one run are not within eps of each other
SuggestStores ==
    {S \in SUBSET SuggestClusters :
        /\ Cardinality(S) <= MaxStored
        /\ \A c1, c2 \in S :
              c1 # c2 => ~WithinEps(c1.embedding, c2.embedding)}

\* the arguments of a call: error_sig and error_trace (None is the empty
\* text), threshold, and the limits
SuggestQueries ==
    { <<SigE, NoText>>, <<SigEx, NoText>>, <<NoText, TraceTb>>,
      <<NoText, NoText>>, <<<<" ">>, NoText>> }
SuggestThresholds == { <<9, 10>>, <<4, 10>>, <<0, 1>>, <<(-1), 1>> }

\* lines 25-50, 135-160: the scan over the clusters is reached
ScanReached(model, rows, encodes, error_sig, error_trace) ==
    /\ ~ShortCircuits(model, error_sig, error_trace)
    /\ rows # << >>
    /\ encodes

\* a direct call of find_config_suggestion on the service instance, with
\* any arguments; rows, byScore and encodes are what the database and the
\* encoder do during the call.  The engine only reads the store, so a
\* behaviour makes one call.  call keeps the arguments and the local
\* best_match after the scan (0 for None)
CallFindConfigSuggestion ==
    /\ call.fn = "none"
    /\ \E qr \in SuggestQueries, threshold \in SuggestThresholds,
          max_suggestions \in 0..MaxArg, rows \in Perms(clusters),
          byScore \in ByScoreChoices, encodes \in BOOLEAN :
          LET model == services[1]
              scanned == ScanReached(model, rows, encodes, qr[1], qr[2])
              best == IF scanned
                      THEN BestMatchFrom(rows, 1, 0,
                               Encode(QueryText(qr[1])), threshold)
                      ELSE 0
          IN  /\ call' = [fn |-> "find_config_suggestion",
                          error_sig |-> qr[1], error_trace |-> qr[2],
                          threshold |-> threshold,
                          max_suggestions |-> max_suggestions,
                          scanned |-> scanned,
                          best_match |->
                              IF best = 0 THEN 0 ELSE rows[best].id]
              /\ ret' = find_config_suggestion(model, rows, byScore,
                            encodes, qr[1], qr[2], threshold,
                            max_suggestions)
    /\ UNCHANGED <<telemetryVars, storeVars, runVars, encoderVars>>

\* a direct call of find_multiple_cluster_suggestions; call keeps the
\* arguments and the local similar_clusters after line 179 (the ids)
CallFindMultiple ==
    /\ call.fn = "none"
    /\ \E qr \in SuggestQueries, threshold \in SuggestThresholds,
          max_clusters \in 0..MaxArg,
          max_suggestions_per_cluster \in 0..MaxArg,
          rows \in Perms(clusters), byScore \in ByScoreChoices,
          encodes \in BOOLEAN :
          LET model == services[1]
              scanned == ScanReached(model, rows, encodes, qr[1], qr[2])
              kept == IF scanned
                      THEN SimilarClusters(rows, Encode(QueryText(qr[1])),
                                           threshold, max_clusters)
                      ELSE << >>
          IN  /\ call' = [fn |-> "find_multiple_cluster_suggestions",
                          error_sig |-> qr[1], error_trace |-> qr[2],
                          threshold |-> threshold,
                          max_clusters |-> max_clusters,
                          max_suggestions_per_cluster |->
                              max_suggestions_per_cluster,
                          scanned |-> scanned,
                          similar_clusters |->
                              [k \in 1..Len(kept) |-> kept[k].id]]
              /\ ret' = find_multiple_cluster_suggestions(model, rows,
                            byScore, encodes, qr[1], qr[2], threshold,
                            max_clusters, max_suggestions_per_cluster)
    /\ UNCHANGED <<telemetryVars, storeVars, runVars, encoderVars>>

\* a server process whose service instance holds a loaded encoder, over a
\* store left by an analysis run
InitSuggest ==
    /\ envs = {}
    /\ beacons = << >>
    /\ NoRequests
    /\ clusters \in SuggestStores
    /\ patterns \in
         {UNION {SuggestPatterns(id, f[id]) : id \in DOMAIN f} :
            f \in {g \in [{c.id : c \in clusters} -> {0, 2, 3}] :
                      \A id \in DOMAIN g : g[id] \in PatternCounts(id)}}
    /\ analyses = << >>
    /\ nextId = 6
    /\ NoRuns
    /\ class_model = Loaded(1)
    /\ view_service = 0
    /\ services = <<Loaded(1)>>
    /\ loads = 1
    /\ NoCall

NextSuggest ==
    \/ CallFindConfigSuggestion
    \/ CallFindMultiple

SpecSuggest == InitSuggest /\ [][NextSuggest]_vars

\* the longest packages list handed to _parse_packages
MaxSpecs == 2

\* list entries: the five operators, a bare name, a second package, an
\* entry with two operators, the empty string and a number
PackageEntries ==
    { Str(<<"n", "p", "=", "=", "1">>), Str(<<"n", "p", ">", "=", "1">>),
      Str(<<"n", "p", "<", "=", "1">>), Str(<<"n", "p", ">", "1">>),
      Str(<<"n", "p", "<", "1">>), Str(Np), Str(<<"p", "d", "=", "=", "2">>),
      Str(<<"n", "p", "<", "1", "=", "=", "2">>), Str(<< >>),
      NonStr(<<"7">>) }

\* the values of EnvSnapshot.packages (a JSONField): None, a dict, a list,
\* another JSON value
PackagesInputs ==
    { [pform |-> "none", pdict |-> << >>, plist |-> << >>],
      [pform |-> "other", pdict |-> << >>, plist |-> << >>] }
    \cup { [pform |-> "dict", pdict |-> d, plist |-> << >>] :
             d \in { << >>, << <<Np, <<"1">>>> >>,
                     << <<Np, <<">", "1">>>>, <<<<"p", "d">>, <<"2">>>> >> } }
    \cup { [pform |-> "list", pdict |-> << >>, plist |-> l] :
             l \in SeqsUpTo(PackageEntries, MaxSpecs) }

\* a call of _parse_packages (lines 15-67) with any packages value; it
\* reads nothing but its argument, so a behaviour makes one call
CallParsePackages ==
    /\ call.fn = "none"
    /\ \E packages \in PackagesInputs :
          /\ call' = [fn |-> "_parse_packages", packages |-> packages]
          /\ ret' = [fn |-> "_parse_packages",
                     value |-> _parse_packages(packages)]
    /\ UNCHANGED <<telemetryVars, storeVars, runVars, encoderVars>>

NextPackages == CallParsePackages

SpecPackages == Init /\ [][NextPackages]_vars

\* the largest number of environment variables of a snapshot
MaxVars == 3

\* a value of n characters
Repeat(c, n) == [i \in 1..n |-> c]

\* environment variables: denylisted names in mixed and upper case, values
\* of exactly MaxValueLen characters and of one more
PrivacyVars ==
    { <<VarToken, <<"s">>>>, <<<<"K", "E", "Y">>, <<"k">>>>,
      <<<<"A", "u", "t", "h">>, Repeat("a", MaxValueLen)>>,
      <<VarM, Repeat("a", MaxValueLen)>>,
      <<VarM, Repeat("a", MaxValueLen + 1)>>,
      <<<<"L">>, Repeat("a", MaxValueLen + 1)>> }

\* the env_vars dicts: no name twice
PrivacyDicts ==
    {d \in SeqsUpTo(PrivacyVars, MaxVars) :
        \A i, j \in 1..Len(d) : i # j => d[i][1] # d[j][1]}

\* two reporting machines, the second with the variables of the first or
\* with none, and two machines that report no error
PrivacyEnvTables ==
    { { [ScorerEnv(H1, X86, Py311, Linux) EXCEPT
             !.has_vars = TRUE, !.env_vars = d],
        [ScorerEnv(H2, X86, Py311, Linux) EXCEPT
             !.has_vars = TRUE, !.env_vars = IF same THEN d ELSE << >>],
        ScorerEnv(<<"c">>, Arm, Py312, Darwin),
        ScorerEnv(<<"d">>, Arm, Py312, Darwin) } :
      d \in PrivacyDicts, same \in BOOLEAN }

InitPrivacy ==
    /\ envs \in PrivacyEnvTables
    /\ beacons = << [kind |-> "error", env_hash |-> H1, error_sig |-> SigE,
                     trace |-> NoText, ts |-> 1],
                    [kind |-> "error", env_hash |-> H2, error_sig |-> SigE,
                     trace |-> NoText, ts |-> 2] >>
    /\ NoRequests
    /\ EmptyStore
    /\ NoRuns
    /\ NoEncoder
    /\ NoCall

\* one analysis process over snapshots that carry sensitive and very long
\* environment variables
SpecPrivacy == InitPrivacy /\ [][NextSolo]_vars

\* the error beacons that carry a signature: their texts embed alike, so
\* two of them form a cluster and the scorer has members to score
BaselineInputs == {d \in BeaconInputs : d.error_sig \in {SigE, SigEx}}

BaselineTables == SeqsUpTo(BaselineInputs, MaxBeacons)

InitBaseline ==
    /\ envs \in EnvTables
    /\ beacons \in BaselineTables
    /\ NoRequests
    /\ EmptyStore
    /\ NoRuns
    /\ NoEncoder
    /\ NoCall

\* one analysis process over every snapshot table and the beacon tables
\* of one family of signatures
SpecBaseline == InitBaseline /\ [][NextSolo]_vars

\* the number of error beacons of the identity tables
MaxIdentity == 5

\* error beacons of three machines ('h' and 'x:h' have a snapshot, 'no' has
\* none) with the signatures 'E' and 'Fa', with the literal signature
\* 'Unknown Error', and without a signature
IdentityInputs ==
    { [kind |-> "error", env_hash |-> h, error_sig |-> sig,
       trace |-> IF sig = NoText THEN TraceTb ELSE NoText, ts |-> 1] :
      h \in {H1, H2}, sig \in {SigE, NoText, UnknownError} }
    \cup { [kind |-> "error", env_hash |-> h, error_sig |-> SigF,
            trace |-> NoText, ts |-> 1] : h \in {H1, H3} }

\* beacon tables of at most n beacons without a repeated beacon
RECURSIVE IdentityTables(_)
IdentityTables(n) ==
    IF n = 0 THEN {<< >>}
    ELSE LET shorter == IdentityTables(n - 1)
         IN  shorter \cup
             {Append(pr[1], pr[2]) :
                pr \in {x \in shorter \X IdentityInputs :
                          \A i \in 1..Len(x[1]) : x[1][i] # x[2]}}

InitIdentity ==
    /\ envs = {ScorerA, ScorerB}
    /\ beacons \in IdentityTables(MaxIdentity)
    /\ NoRequests
    /\ EmptyStore
    /\ NoRuns
    /\ NoEncoder
    /\ NoCall

\* one analysis process over tables whose errors form several clusters
SpecIdentity == InitIdentity /\ [][NextSolo]_vars

(***************************************************************************)
(* The claims.                                                             *)
(***************************************************************************)

\* C1: when a fault inside an analysis run is caught (the run ends
\* "failed"), no ErrorAnalysis row has been appended and the cluster store
\* (clusters and patterns) is exactly what it was when the run started.
C1_FaultLeavesStoreAsBefore ==
    \A p \in Runners :
        run[p].pc = "failed" =>
            /\ clusters = hist[p].clusters
            /\ patterns = hist[p].patterns
            /\ Len(analyses) = hist[p].analyses

\* the groups of positions that share a cluster label
LabelGroups(labels) ==
    {LabelPositions(labels, c) : c \in 0..MaxLabel(labels)}

\* the clustering of the working set's own texts
WorkingSetLabels(r) ==
    ClusterLabels([k \in 1..Len(r.beacon_env_data) |->
                      r.beacon_env_data[k].text])

\* C2: a run that dropped a deduplicated beacon for want of a snapshot does
\* not raise on it, and groups the working-set records exactly as if the
\* dropped beacon had not been there: every cluster's members are the
\* working-set records whose own texts were clustered together.
C2_DroppedBeaconChangesNothing ==
    \A p \in Runners :
        LET r == run[p]
        IN  Len(r.error_texts) > Len(r.beacon_env_data) =>
                /\ r.raised # "IndexError"
                /\ r.cluster_labels # << >> =>
                       LabelGroups(r.cluster_labels) =
                           LabelGroups(WorkingSetLabels(r))

\* C3: two analysis runs are never in progress at the same time.
C3_SingleFlight ==
    \A p, q \in Runners : p # q => ~(Active(p) /\ Active(q))

\* C4: a beacon of kind "error" with neither error_sig nor trace is answered
\* with a 4xx status, and no such beacon is in the table.
C4_InvalidBeaconIsClientError ==
    /\ \A t \in Threads :
         (tresp[t].op = "beacon" /\ ~BeaconIsValid(tresp[t].data)) =>
             tresp[t].status \in 400..499
    /\ \A i \in 1..Len(beacons) : BeaconIsValid(beacons[i])

\* the error beacons (positions) whose env_hash has a snapshot
MatchedErrorBeacons ==
    {i \in 1..Len(beacons) :
        beacons[i].kind = "error" /\ EnvExists(beacons[i].env_hash)}

SigEnvPair(i) == <<beacons[i].error_sig, beacons[i].env_hash>>

\* C5: the working set of a run holds, for every distinct (signature,
\* env_hash) pair among the error beacons with a snapshot, exactly one
\* record, built from the first beacon of that pair; beacons of different
\* pairs are never merged.
C5_DedupBySignatureAndEnvHash ==
    \A p \in Runners :
        run[p].pc \in {"clear_clusters", "clear_patterns", "cluster", "insert",
                       "record", "done", "failed"} =>
            LET W == run[p].beacon_env_data
            IN  \A i \in MatchedErrorBeacons :
                    LET first == Min({j \in MatchedErrorBeacons :
                                        SigEnvPair(j) = SigEnvPair(i)})
                    IN  Cardinality({k \in 1..Len(W) :
                            SigEnvPair(W[k].beacon) = SigEnvPair(i)}) = 1
                        /\ \E k \in 1..Len(W) : W[k].beacon = first

\* C6: no two snapshots share (env_hash, machine_arch); a submission whose
\* identity is stored stores nothing and is answered stored=false, one whose
\* identity is new stores its snapshot and is answered stored=true.
C6_EnvFirstWriteWins ==
    /\ [](\A e1, e2 \in envs : Identity(e1) = Identity(e2) => e1 = e2)
    /\ [][\A t \in Threads :
            (tresp'[t] # tresp[t] /\ tresp'[t].op = "env") =>
                LET d == tresp'[t].data
                IN  /\ tresp'[t].status = 200
                    /\ IF IdentityStored(d)
                       THEN envs' = envs /\ ~tresp'[t].stored
                       ELSE envs' = envs \cup {d} /\ tresp'[t].stored]_vars

\* C7: a stored beacon is answered 204 exactly when no snapshot with its
\* env_hash exists at that moment and 200 otherwise; snapshots are never
\* deleted, so once env_hash h has a snapshot every later answer for h is
\* 200.
C7_NeedEnvIffNoSnapshot ==
    [][/\ \A t \in Threads :
            (tresp'[t] # tresp[t] /\ tresp'[t].op = "beacon"
                /\ tresp'[t].status \in {200, 204}) =>
                (tresp'[t].status = 204 <=>
                    ~EnvExists(tresp'[t].data.env_hash))
       /\ \A e \in envs : e \in envs']_vars

\* a beacon for H1 was answered 204, and after the snapshot was stored a
\* beacon for H1 was answered 200
C7_Witness ==
    \E t1, t2 \in Threads :
        /\ tresp[t1].op = "beacon" /\ tresp[t1].status = 204
        /\ tresp[t2].op = "beacon" /\ tresp[t2].status = 200
        /\ tresp[t1].data.env_hash = tresp[t2].data.env_hash

\* C8: when a run with a non-empty working set completes, the cluster store
\* holds exactly the clusters and patterns that run created.
C8_StoreIsExactlyThisRun ==
    [][\A p \in Runners :
          (run[p].pc = "record" /\ run'[p].pc = "done") =>
              /\ {c.id : c \in clusters'} = hist'[p].made
              /\ Cardinality(clusters') = run'[p].clusters_created
              /\ \A pt \in patterns' : pt.cluster \in hist'[p].made
              /\ Cardinality(patterns') = run'[p].patterns_created]_vars

\* no error beacon, or no first-of-its-key error beacon with a snapshot
NothingToAnalyse ==
    ~\E i \in 1..Len(beacons) :
        /\ beacons[i].kind = "error"
        /\ EnvExists(beacons[i].env_hash)
        /\ ~\E j \in 1..(i - 1) :
              /\ beacons[j].kind = "error"
              /\ error_key(beacons[j]) = error_key(beacons[i])

\* C9: a run that finds no error beacon, or no deduplicated error beacon
\* with a snapshot, ends normally as a no-op: clusters, patterns and the
\* ErrorAnalysis table are unchanged.
C9_EmptyWorkingSetIsNoOp ==
    [][\A p \in Runners :
          (~Active(p) /\ run'[p] # run[p] /\ NothingToAnalyse) =>
              /\ run'[p].pc = "noop"
              /\ UNCHANGED <<clusters, patterns, analyses>>]_vars

\* a run ended as a no-op although the table holds error beacons
C9_Witness ==
    \E p \in Runners : run[p].pc = "noop" /\ HasErrorBeacons(beacons)

\* C10: the encoder is constructed at most once in the process, and every
\* service instance holds that one encoder.
C10_EncoderInitialisedOnce ==
    /\ loads <= 1
    /\ \A i, j \in 1..Len(services) :
          (services[i].state = "loaded" /\ services[j].state = "loaded") =>
              services[i] = services[j]

\* the encoder failed to load at some time that the state still shows
InitFailed ==
    \/ class_model = ModelError
    \/ \E i \in 1..Len(services) : services[i] = ModelError

\* C11: once the encoder has failed to load, it is never constructed again
\* and every suggestion request (single or multi-cluster) is answered
\* "no match" with no server error; a request during which the encoder
\* raises while encoding is answered "no match" as well.
C11_DegradedModeIsNoMatch ==
    [][/\ InitFailed => loads' = loads
       /\ \A t \in Threads :
            (tresp'[t] # tresp[t] /\ tresp'[t].op = "suggest") =>
                /\ tresp'[t].status # 500
                /\ (InitFailed \/ tresp'[t].encode_raised) =>
                       ~tresp'[t].body.match]_vars

\* the patterns stored for cluster id
StoredPairs(id) ==
    {<<pt.config_key, pt.config_value>> : pt \in {x \in patterns : x.cluster = id}}

\* the number of member records of data, and of snapshots, that have kv
MemberCount(data, kv) ==
    Cardinality({i \in 1..Len(data) : kv \in ConfigItems(data[i].env)})
SnapshotCount(kv) == Cardinality({e \in envs : kv \in ConfigItems(e)})

\* occurrence_rate > 0.65, for occurrence_rate = c / s
OverFloor(c, s) == 100 * c > 65 * s

\* occurrence_rate / global_rate > 1.5, for c / s and g / n
OverScore(c, s, g, n) == 2 * c * n > 3 * s * g

\* the scorer has gone through every cluster it stored so far
ScorerPassed == run["r1"].pc \in {"insert", "record", "done"}

CallQuery == Encode(QueryText(call.error_sig))

\* the stored clusters whose similarity to the query reaches the threshold
Reaching ==
    {c \in clusters :
        SimAtLeast(Similarity(CallQuery, c.embedding), call.threshold)}

\* find_config_suggestion was called and reached its scan of the clusters
SingleScanned == call.fn = "find_config_suggestion" /\ call.scanned

\* C13: whatever the threshold, the single-best-match scan selects a cluster
\* if and only if some stored cluster's similarity to the query is at least
\* the threshold, and the selected cluster reaches the threshold with a
\* similarity no other such cluster exceeds.
C13_BestMatchIsHighestAboveThreshold ==
    SingleScanned =>
        /\ call.best_match # 0 <=> Reaching # {}
        /\ call.best_match # 0 =>
              \E b \in Reaching :
                  /\ b.id = call.best_match
                  /\ \A c \in Reaching :
                        ~SimGreater(Similarity(CallQuery, c.embedding),
                                    Similarity(CallQuery, b.embedding))

\* the reaching clusters that no reaching cluster exceeds in similarity
TopReaching ==
    {b \in Reaching :
        \A c \in Reaching :
            ~SimGreater(Similarity(CallQuery, c.embedding),
                        Similarity(CallQuery, b.embedding))}

\* C14: find_config_suggestion returns "no match" (None) when the store is
\* empty, when no stored cluster's similarity reaches the threshold, and
\* when the reaching cluster(s) of highest similarity have no pattern, also
\* if another reaching cluster has patterns.
C14_NoMatchCases ==
    call.fn = "find_config_suggestion" =>
        /\ clusters = {} => ret = None
        /\ Reaching = {} => ret = None
        /\ (\A b \in TopReaching : PatternsOf(b.id) = {}) => ret = None

\* a call with a valid query and a positive limit returned None although a
\* reaching cluster has patterns: the reaching cluster of highest
\* similarity has none
C14_Witness ==
    /\ SingleScanned
    /\ call.max_suggestions > 0
    /\ ret = None
    /\ TopReaching # {}
    /\ \A b \in TopReaching : PatternsOf(b.id) = {}
    /\ \E c \in Reaching : PatternsOf(c.id) # {}

\* the smaller of two numbers
Smaller(a, b) == IF a < b THEN a ELSE b

\* C15: a result of find_config_suggestion holds exactly min(max_suggestions,
\* number of patterns of the selected cluster) suggestions, each built from
\* a different pattern of the selected cluster, in non-increasing
\* significance_score order, and no pattern of that cluster left out has a
\* higher significance_score than a returned one.
C15_TopSuggestionsOfSelected ==
    (call.fn = "find_config_suggestion" /\ ret.match) =>
        LET P == PatternsOf(call.best_match)
            sugs == ret.suggestions
            returned == {pt \in P : \E k \in 1..Len(sugs) : sugs[k] = Suggestion(pt)}
        IN  /\ Len(sugs) = Smaller(call.max_suggestions, Cardinality(P))
            /\ \A k \in 1..Len(sugs) : \E pt \in P : sugs[k] = Suggestion(pt)
            /\ \A j, k \in 1..Len(sugs) : j # k => sugs[j] # sugs[k]
            /\ \A k \in 1..(Len(sugs) - 1) :
                  FracAtLeast(sugs[k].significance_score,
                              sugs[k + 1].significance_score)
            /\ \A pt \in P \ returned : \A k \in 1..Len(sugs) :
                  FracAtLeast(sugs[k].significance_score,
                              significance_score(pt))

\* a result with fewer suggestions than the selected cluster has patterns,
\* where a pattern left out ties with the last one returned
C15_Witness ==
    /\ call.fn = "find_config_suggestion"
    /\ ret.match
    /\ Len(ret.suggestions) = 2
    /\ \E pt \in PatternsOf(call.best_match) :
          /\ \A k \in 1..2 : ret.suggestions[k] # Suggestion(pt)
          /\ significance_score(pt) = ret.suggestions[2].significance_score

\* find_multiple_cluster_suggestions was called and reached its scan
MultiScanned == call.fn = "find_multiple_cluster_suggestions" /\ call.scanned

\* the clusters the last call kept (similar_clusters after line 179)
Kept ==
    {c \in clusters :
        \E k \in 1..Len(call.similar_clusters) : call.similar_clusters[k] = c.id}

\* the returned suggestions that come from cluster id
SuggestionsOf(id) ==
    {k \in 1..Len(ret.suggestions) : ret.suggestions[k].cluster = id}

\* C16: find_multiple_cluster_suggestions keeps min(max_clusters, number of
\* reaching clusters) clusters, all reaching the threshold and none less
\* similar than a reaching cluster left out; its result holds, from every
\* kept cluster, min(max_suggestions_per_cluster, number of its patterns)
\* suggestions built from different patterns none of which is less
\* significant than a pattern of that cluster left out, and nothing else;
\* the list is in non-increasing significance_score order and has at most
\* max_clusters * max_suggestions_per_cluster entries; clusters_analyzed is
\* the length of cluster_info, which has one entry, with the cluster's
\* similarity, per kept cluster that contributed a suggestion.
C16_MultiClusterTopK ==
    MultiScanned =>
        /\ Len(call.similar_clusters) =
              Smaller(call.max_clusters, Cardinality(Reaching))
        /\ Cardinality(Kept) = Len(call.similar_clusters)
        /\ Kept \subseteq Reaching
        /\ \A b \in Kept : \A c \in Reaching \ Kept :
              ~SimGreater(Similarity(CallQuery, c.embedding),
                          Similarity(CallQuery, b.embedding))
        /\ ret.match =>
              LET sugs == ret.suggestions
                  info == ret.cluster_info
                  contributed == {b \in Kept : SuggestionsOf(b.id) # {}}
              IN  /\ \A k \in 1..Len(sugs) : \E b \in Kept : sugs[k].cluster = b.id
                  /\ \A j, k \in 1..Len(sugs) : j # k => sugs[j] # sugs[k]
                  /\ \A b \in Kept :
                        LET P == PatternsOf(b.id)
                            mine == {sugs[k] : k \in SuggestionsOf(b.id)}
                        IN  /\ Cardinality(SuggestionsOf(b.id)) =
                                  Smaller(call.max_suggestions_per_cluster,
                                          Cardinality(P))
                            /\ mine \subseteq {Suggestion(pt) : pt \in P}
                            /\ \A pt \in P : \A sg \in mine :
                                  \/ Suggestion(pt) \in mine
                                  \/ FracAtLeast(sg.significance_score,
                                                 significance_score(pt))
                  /\ \A k \in 1..(Len(sugs) - 1) :
                        FracAtLeast(sugs[k].significance_score,
                                    sugs[k + 1].significance_score)
                  /\ Len(sugs) <=
                        call.max_clusters * call.max_suggestions_per_cluster
                  /\ ret.clusters_analyzed = Len(info)
                  /\ Len(info) = Cardinality(contributed)
                  /\ \A b \in contributed : \E k \in 1..Len(info) :
                        /\ info[k].error_signature = b.error_signature
                        /\ info[k].similarity =
                              Similarity(CallQuery, b.embedding)

\* three clusters reach the threshold, two are kept and both contribute,
\* and the most significant suggestion comes from the less similar of them
C16_Witness ==
    /\ MultiScanned
    /\ ret.match
    /\ Cardinality(Reaching) = 3
    /\ Len(call.similar_clusters) = 2
    /\ ret.clusters_analyzed = 2
    /\ ret.suggestions[1].cluster = call.similar_clusters[2]

\* the characters of the comparison operators
OpChars == {"=", "<", ">"}
Plain(t) == \A i \in 1..Len(t) : t[i] \notin OpChars

\* an operator and the prefix the version gets
Operators ==
    { <<<<"=", "=">>, << >> >>, <<<<">", "=">>, <<">", "=">>>>,
      <<<<"<", "=">>, <<"<", "=">>>>, <<<<">">>, <<">">>>>,
      <<<<"<">>, <<"<">>>> }

\* the <<name, version>> a specifier string t stands for: name, operator,
\* version with name and version free of operator characters, or a bare name
Reading(t) ==
    { <<SubSeq(t, 1, x[1]),
        x[2][2] \o SubSeq(t, x[1] + Len(x[2][1]) + 1, Len(t))>> :
      x \in {y \in (0..Len(t)) \X Operators :
               /\ y[1] + Len(y[2][1]) <= Len(t)
               /\ SubSeq(t, y[1] + 1, y[1] + Len(y[2][1])) = y[2][1]
               /\ Plain(SubSeq(t, 1, y[1]))
               /\ Plain(SubSeq(t, y[1] + Len(y[2][1]) + 1, Len(t)))} }
    \cup (IF Plain(t) THEN {<<t, Unknown>>} ELSE {})

\* the items of a dict as a set
Mapping(items) == {items[i] : i \in 1..Len(items)}

\* C17: _parse_packages answers every packages value with a name -> version
\* mapping: a dict comes back unchanged; None, [] and {} give the empty
\* mapping; in a list, the strings 'name==v', 'name>=v', 'name<=v',
\* 'name>v', 'name<v' and 'name' give name -> 'v', '>=v', '<=v', '>v', '<v'
\* and 'unknown' (a later entry for a name replaces an earlier one), and
\* entries that are not strings give nothing.
C17_ParsePackagesTotal ==
    call.fn = "_parse_packages" =>
        LET packages == call.packages
            l == packages.plist
            strs == {i \in 1..Len(l) : l[i].type = "str"}
            expected ==
                {rd \in UNION {Reading(l[i].text) : i \in strs} :
                    \E i \in strs :
                        /\ rd \in Reading(l[i].text)
                        /\ \A j \in strs : j > i =>
                              \A r2 \in Reading(l[j].text) : r2[1] # rd[1]}
        IN  /\ \A i, j \in 1..Len(ret.value) :
                  i # j => ret.value[i][1] # ret.value[j][1]
            /\ packages.pform = "dict" => ret.value = packages.pdict
            /\ packages.pform = "none" => ret.value = << >>
            /\ (packages.pform = "list" /\ l = << >>) => ret.value = << >>
            /\ (/\ packages.pform = "list"
                /\ \A i \in strs : Cardinality(Reading(l[i].text)) = 1)
                  => Mapping(ret.value) = expected

\* a list with an entry that is not a string and an entry 'np>=1' was
\* answered with the mapping np -> '>=1' alone
C17_Witness ==
    /\ call.fn = "_parse_packages"
    /\ call.packages.pform = "list"
    /\ \E i \in 1..Len(call.packages.plist) :
          call.packages.plist[i].type # "str"
    /\ ret.value = << <<Np, <<">", "=", "1">>>> >>

\* the embeddings a run clustered
RunEmbeddings(r) ==
    [j \in 1..Len(r.error_texts) |-> Encode(r.error_texts[j])]

\* point i is density-reachable from a core point
DensityReachable(emb, i) ==
    \E j \in 1..Len(emb) : IsCore(emb, j) /\ i \in Expand(emb, {j})

\* C18: two runs that cluster the same ordered texts find the same
\* partition and the same noise points; a point that is not
\* density-reachable from a core point is labelled noise (-1), and no
\* member record of a stored cluster is such a point.
C18_DeterministicAndNoiseExcluded ==
    \A p \in Runners :
        LET r == run[p]
            emb == RunEmbeddings(r)
        IN  r.cluster_labels # << >> =>
                /\ \A p2 \in Runners :
                      (/\ run[p2].cluster_labels # << >>
                       /\ run[p2].error_texts = r.error_texts) =>
                          /\ LabelGroups(run[p2].cluster_labels) =
                                 LabelGroups(r.cluster_labels)
                          /\ LabelPositions(run[p2].cluster_labels, -1) =
                                 LabelPositions(r.cluster_labels, -1)
                /\ \A i \in 1..Len(emb) :
                      ~DensityReachable(emb, i) => r.cluster_labels[i] = -1
                /\ \A m \in hist[p].members : \A k \in 1..Len(m[2]) :
                      \A i \in 1..Len(emb) :
                          r.error_texts[i] = m[2][k].text =>
                              DensityReachable(emb, i)

\* the environment variables of a snapshot as they were submitted
RawVars(env) ==
    IF env.has_vars
    THEN {<<<<"env_vars", env.env_vars[i][1]>>, env.env_vars[i][2]>> :
            i \in 1..Len(env.env_vars)}
    ELSE {}

\* the name is on the denylist whatever its case, or the value is longer
\* than 200 characters
Excluded(kv) == Lower(kv[1][2]) \in SensitiveNames \/ Len(kv[2]) > 200

\* the number of member records of data whose snapshot has the variable
RawCount(data, kv) ==
    Cardinality({i \in 1..Len(data) : kv \in RawVars(data[i].env)})

\* C19: neither the baseline of a run nor the pattern store ever holds an
\* environment variable whose name is password, secret, key, token or auth
\* in any case, or whose value has more than 200 characters; a variable
\* with a value of exactly 200 characters and a name off the denylist is in
\* the baseline; and the scorer stores a pattern for a variable of a
\* cluster's members exactly when the baseline has it and its rates pass
\* the test, so both exclude the same variables.
C19_SensitiveVarsExcluded ==
    LET r == run["r1"]
        vars_of(kvs) == {kv \in kvs : kv[1][1] = "env_vars"}
        baseline == vars_of(DOMAIN r.counts)
        stored == vars_of({<<pt.config_key, pt.config_value>> : pt \in patterns})
    IN  /\ \A kv \in baseline \cup stored : ~Excluded(kv)
        /\ r.pc \in {"insert", "record", "done"} =>
              \A e \in envs : \A kv \in RawVars(e) :
                  kv \in baseline <=> ~Excluded(kv)
        /\ ScorerPassed =>
              \A m \in hist["r1"].members :
                  \A kv \in UNION {RawVars(m[2][i].env) : i \in 1..Len(m[2])} :
                      kv \in StoredPairs(m[1]) <=>
                          /\ kv \in baseline
                          /\ OverFloor(RawCount(m[2], kv), Len(m[2]))
                          /\ OverScore(RawCount(m[2], kv), Len(m[2]),
                                       r.counts[kv], r.total_envs)

\* a cluster whose members' snapshots carry a variable named Token, a
\* variable with a value of 201 characters and a variable with a value of
\* exactly 200 characters, of which the last alone has a stored pattern
C19_Witness ==
    /\ ScorerPassed
    /\ \E m \in hist["r1"].members :
          LET raw == UNION {RawVars(m[2][i].env) : i \in 1..Len(m[2])}
          IN  /\ \E kv \in raw : kv[1][2] = VarToken
              /\ \E kv \in raw : Len(kv[2]) = 201
              /\ \E kv \in raw : Len(kv[2]) = 200 /\ kv \in StoredPairs(m[1])
              /\ \A kv \in raw : kv \in StoredPairs(m[1]) => Len(kv[2]) = 200

\* the beacon of a member record
MemberBeacon(d) == beacons[d.beacon]

\* C20: every cluster a run stored has at least two members and an
\* error_count equal to their number; its representative is the member that
\* comes first in the working set's order; its cluster_hash is the digest
\* of the representative's signature (the placeholder when it has none) and
\* its embedding the embedding of the representative's own text; first_seen
\* and last_seen are the smallest and the largest timestamp of its members,
\* so first_seen <= last_seen.
C20_StoredClusterShape ==
    /\ \A c \in clusters :
          c.id \in hist["r1"].made => \E m \in hist["r1"].members : m[1] = c.id
    /\ \A m \in hist["r1"].members :
          \E c \in clusters :
              LET data == m[2]
                  rep == data[1]
                  sig == IF MemberBeacon(rep).error_sig # NoText
                         THEN MemberBeacon(rep).error_sig ELSE UnknownError
              IN  /\ c.id = m[1]
                  /\ Len(data) >= 2
                  /\ c.error_count = Len(data)
                  /\ \A k \in 2..Len(data) : rep.beacon < data[k].beacon
                  /\ c.cluster_hash = Sha256Hex32(sig)
                  /\ c.embedding =
                        Encode(Strip(BeaconText(MemberBeacon(rep))))
                  /\ \A k \in 1..Len(data) :
                        /\ c.first_seen <= MemberBeacon(data[k]).ts
                        /\ MemberBeacon(data[k]).ts <= c.last_seen
                  /\ \E k \in 1..Len(data) :
                        c.first_seen = MemberBeacon(data[k]).ts
                  /\ \E k \in 1..Len(data) :
                        c.last_seen = MemberBeacon(data[k]).ts
                  /\ c.first_seen <= c.last_seen

\* a stored cluster whose members have different embeddings and whose
\* representative is not its earliest member
C20_Witness ==
    \E m \in hist["r1"].members : \E c \in clusters :
        /\ c.id = m[1]
        /\ c.first_seen < MemberBeacon(m[2][1]).ts
        /\ \E k \in 2..Len(m[2]) : Encode(m[2][k].text) # c.embedding

(***************************************************************************)
(* C21: in every scoring step of every run the global_rate that divides    *)
(* the occurrence_rate is strictly positive (a positive count over a       *)
(* positive number of snapshots, or the default), so significance_score is *)
(* defined, and it is not negative; the same holds of every stored         *)
(* pattern.                                                                *)
(***************************************************************************)
\* the baseline the run of process p computed at line 148
RunGlobalStats(p) == [total_envs |-> run[p].total_envs, counts |-> run[p].counts]

\* the pairs scored for the member records data (lines 297-298)
ScoredPairs(data) == UNION {ConfigItems(data[i].env) : i \in 1..Len(data)}

\* a fraction <<num, den>> that is a positive number
Positive(f) == f[1] > 0 /\ f[2] > 0

C21_GlobalRatePositive ==
    /\ \A p \in Runners : \A m \in hist[p].members :
           \A kv \in ScoredPairs(m[2]) :
               /\ Positive(GlobalRate(RunGlobalStats(p), kv))
               /\ MemberCount(m[2], kv) >= 0
               /\ Len(m[2]) > 0
    /\ \A pt \in patterns :
           /\ Positive(pt.global_rate)
           /\ pt.occurrence_rate[1] >= 0
           /\ pt.occurrence_rate[2] > 0

\* a run has scored a cluster whose members share one snapshot out of
\* several: a pair with the global rate 1/total_envs, and a stored pattern
C21_Witness ==
    /\ run["r1"].total_envs > 1
    /\ \E m \in hist["r1"].members : \E kv \in ScoredPairs(m[2]) :
           GlobalRate(RunGlobalStats("r1"), kv) = <<1, run["r1"].total_envs>>
    /\ patterns # {}

(***************************************************************************)
(* C22: the ErrorAnalysis log is append-only.  A step in which a run       *)
(* completes appends exactly one record: total_errors_analyzed is the size *)
(* of the run's working set, clusters_found and patterns_found are the     *)
(* numbers of clusters and patterns of that run in the store at that       *)
(* moment.  Every other step (a no-op, a failure, a crash included) leaves *)
(* the log as it is.                                                       *)
(***************************************************************************)
\* process p ends its run as completed in this step
Completes(p) == run[p].pc # "done" /\ run'[p].pc = "done"

\* the clusters and patterns of the run of p that are in the store
LeftClusters(p) == {c \in clusters : c.id \in hist[p].made}
LeftPatterns(p) == {pt \in patterns : pt.cluster \in hist[p].made}

\* the record that describes the run of p
RecordOf(p) ==
    [total_errors_analyzed |-> Len(run[p].beacon_env_data),
     clusters_found |-> Cardinality(LeftClusters(p)),
     patterns_found |-> Cardinality(LeftPatterns(p))]

C22_AnalysisLogAppendOnly ==
    [][ /\ \A p \in Runners :
             Completes(p) => analyses' = Append(analyses, RecordOf(p))
        /\ (\A p \in Runners : ~Completes(p)) => analyses' = analyses
      ]_vars

(***************************************************************************)
(* C23: in a match response to a suggestion request the reported           *)
(* confidence equals the cosine similarity between the query and the       *)
(* best-matching stored cluster, whether the request asked for one cluster *)
(* or for several.                                                         *)
(***************************************************************************)
\* the similarity of the query of the answered request of t to cluster c
AnsweredSimilarity(t, c) ==
    Similarity(Encode(QueryText(tresp[t].data.error_sig)), c.embedding)

\* two similarities are the same number
SimEqual(x, y) == ~SimGreater(x, y) /\ ~SimGreater(y, x)

\* thread t holds a match response
MatchResponse(t) ==
    /\ tresp[t].op = "suggest"
    /\ tresp[t].status = 200
    /\ tresp[t].body.match

C23_ConfidenceIsSimilarity ==
    \A t \in Threads :
        MatchResponse(t) =>
            \E c \in clusters :
                /\ \A c2 \in clusters :
                       ~SimGreater(AnsweredSimilarity(t, c2),
                                   AnsweredSimilarity(t, c))
                /\ SimEqual(tresp[t].body.confidence,
                            AnsweredSimilarity(t, c))

(***************************************************************************)
(* C24: an analysis run ends normally whatever the snapshot table holds.   *)
(* No run dies of an unhandled exception, and every error beacon that is   *)
(* the first of its deduplication key and whose env_hash has a snapshot    *)
(* (one or several, differing in machine_arch) is in the working set with  *)
(* a snapshot of that env_hash.                                            *)
(***************************************************************************)
\* beacon i survives deduplication (lines 93-99)
FirstOfKey(i) ==
    /\ beacons[i].kind = "error"
    /\ \A j \in 1..(i - 1) :
           beacons[j].kind = "error" => error_key(beacons[j]) # error_key(beacons[i])

\* the run of p has built its working set
Ingested(p) == run[p].pc \in {"clear_clusters", "clear_patterns", "cluster",
                              "insert", "record", "done", "failed"}

C24_RunEndsNormally ==
    \A p \in Runners :
        /\ run[p].pc # "crashed"
        /\ Ingested(p) =>
              \A i \in 1..Len(beacons) :
                  FirstOfKey(i) /\ EnvExists(beacons[i].env_hash) =>
                      \E k \in 1..Len(run[p].beacon_env_data) :
                          /\ run[p].beacon_env_data[k].beacon = i
                          /\ run[p].beacon_env_data[k].env.env_hash =
                                 beacons[i].env_hash

(***************************************************************************)
(* C25: find_multiple_cluster_suggestions, asked for at least one cluster  *)
(* and at least one suggestion per cluster, returns a match whenever some  *)
(* stored cluster that reaches the threshold has a pattern: a more similar *)
(* cluster without patterns does not take its place among the kept ones.   *)
(***************************************************************************)
\* the clusters that reach the threshold and have a pattern
ReachingWithPatterns == {c \in Reaching : PatternsOf(c.id) # {}}

C25_MultiMatchWhenPatternsExist ==
    /\ MultiScanned
    /\ call.max_clusters >= 1
    /\ call.max_suggestions_per_cluster >= 1
    /\ ReachingWithPatterns # {}
    => ret.match

(***************************************************************************)
(* C26: within one run no two clusters get the same cluster_hash, so no    *)
(* insert of a cluster fails on the unique constraint: the member lists    *)
(* the run takes for two different labels never have representative        *)
(* signatures with the same hash, the placeholder 'Unknown Error' of the   *)
(* records without a signature included.                                   *)
(***************************************************************************)
\* the labels of the run of p that become clusters (lines 150-162)
ClusterIds(p) ==
    {id \in 0..MaxLabel(run[p].cluster_labels) :
        /\ ~ClusterDataRaises(run[p].cluster_labels, run[p].beacon_env_data, id)
        /\ Len(ClusterData(run[p].cluster_labels, run[p].beacon_env_data, id)) >= 2}

\* the identity the run of p gives to the cluster of label id
IdentityOf(p, id) ==
    ClusterRow(0, ClusterData(run[p].cluster_labels, run[p].beacon_env_data, id),
               run[p].error_texts, beacons).cluster_hash

\* the run of p has labelled its texts
Labelled(p) == run[p].pc \in {"insert", "record", "done", "failed"}
                /\ run[p].cluster_labels # << >>

C26_ClusterIdentitiesDistinct ==
    \A p \in Runners :
        /\ run[p].raised # "IntegrityError"
        /\ Labelled(p) =>
              \A a, b \in ClusterIds(p) :
                  a # b => IdentityOf(p, a) # IdentityOf(p, b)

(***************************************************************************)
(* C27: in a run during which the snapshot table does not change, the      *)
(* environment of every working-set record is a stored snapshot, so every  *)
(* (key, value) scored for a cluster is in the global baseline with a      *)
(* count of at least one: its global_rate is at least 1 / total_snapshots  *)
(* and never the 0.01 default, for the scored pairs and for the patterns   *)
(* the run stored.                                                         *)
(***************************************************************************)
\* the pair kv is in the baseline of the run of p
InBaseline(p, kv) ==
    /\ run[p].total_envs > 0
    /\ kv \in DOMAIN run[p].counts
    /\ run[p].counts[kv] >= 1
    /\ GlobalRate(RunGlobalStats(p), kv) =
          <<run[p].counts[kv], run[p].total_envs>>

C27_ScoredPairsInBaseline ==
    \A p \in Runners :
        /\ \A k \in 1..Len(run[p].beacon_env_data) :
               run[p].beacon_env_data[k].env \in envs
        /\ \A m \in hist[p].members : \A kv \in ScoredPairs(m[2]) :
               InBaseline(p, kv)
        /\ \A pt \in LeftPatterns(p) :
               /\ pt.global_rate[1] >= 1
               /\ pt.global_rate[2] = Cardinality(envs)

\* a run stored a pattern for an environment variable that one of two
\* snapshots has
C27_Witness ==
    /\ hist["r1"].members # {}
    /\ \E pt \in LeftPatterns("r1") :
           /\ pt.config_key[1] = "env_vars"
           /\ pt.global_rate = <<1, 2>>
           /\ InBaseline("r1", <<pt.config_key, pt.config_value>>)

====
